---- MODULE Spec2Model ----
(***************************************************************************)
(* A model of pwnutil's Tube (src/src/lib/tubes/ProcessTube.ts, class Tube *)
(* at lines 132-644) and of the wait helpers it is built on                *)
(* (src/src/lib/helpers/wait.ts, lines 56-118).                            *)
(*                                                                         *)
(* The program runs on one JavaScript event loop.  A macrotask (a chunk or *)
(* close event of the source, a timer callback, a call made by the user of *)
(* the Tube) runs to completion and then every queued promise continuation *)
(* (microtask) runs, in queue order, before the next macrotask.  The model *)
(* keeps the microtask queue as a variable: every macrotask action needs   *)
(* it empty, every continuation is one action that takes the head.         *)
(*                                                                         *)
(* Bytes are small integers; a Buffer is a sequence of bytes.  A timer is   *)
(* the time left until it fires, one unit standing for one second of the   *)
(* timeouts; time passes by one unit when no timer is due.                 *)
(***************************************************************************)
EXTENDS Integers, Sequences, FiniteSets, TLC

\* ------------------------------------------------------------- bounds
\* Bytes the source emits in one run.
MaxEmit == 3
\* Longest chunk of one "data" event.
MaxChunk == 2
\* Calls the user of the Tube makes in one run.
MaxCalls == 2
\* TubeContext.bytes (4096 in the source), scaled to the model's streams.
ChunkBytes == 2
\* TubeContext.longTimeout (15 in the source), scaled to the model's clock.
LongTimeout == 1
\* How many times a stream may emit "end", and "close".
MaxSignals == 2

Byte == {1, 2}

\* The process-wide defaults; TubeContext is an exported, mutable object.
TubeContext ==
    [bytes |-> ChunkBytes, longTimeout |-> LongTimeout, handleIncomplete |-> "return",
     lineEnding |-> <<2>>, keepEnds |-> FALSE]

\* What the user may pass.
RecvTimeouts == {0 - 1, 1}
UntilTimeouts == {1, 2}
RecvSizes == {1, ChunkBytes}
Policies == {"return", "buffer", "throw"}
DelimLists == { << <<1, 1>> >>, << <<2>>, <<1>> >>, << <<1, 2>>, <<1>> >>, << <<1>>, <<1, 2>> >> }

\* Line endings of one and of two bytes.
LineEndings == { <<2>>, <<2, 2>> }

\* The predicates a script passes to recvlinePred: the line is not empty and
\* starts with byte 1; the line has at least two bytes.
Preds == {"starts1", "long"}

pred(p, data) ==
    IF p = "starts1" THEN Len(data) > 0 /\ data[1] = 1 ELSE Len(data) >= 2

\* The arguments one script passes to its recvline and recvlinePred calls.
LineArgs ==
    [keepends : BOOLEAN, timeout : UntilTimeouts, handleIncomplete : Policies,
     lineEnding : LineEndings, pred : Preds]

\* TubeContext with `bytes` raised above the length of any stream of a run.
WholeStreamContext == [TubeContext EXCEPT !.bytes = MaxEmit + 1]

\* The arguments one script passes to its recvuntil calls.
UntilArgs == [delims : DelimLists, timeout : UntilTimeouts, handleIncomplete : Policies]

RECURSIVE SeqsOfLen(_, _)
SeqsOfLen(S, n) ==
    IF n = 0 THEN {<<>>}
    ELSE {<<x>> \o t : x \in S, t \in SeqsOfLen(S, n - 1)}

Chunks == UNION {SeqsOfLen(Byte, n) : n \in 1..MaxChunk}

\* ------------------------------------------------------------- Buffer
Min(a, b) == IF a < b THEN a ELSE b

\* Buffer.slice(a, b) for a, b >= 0: offsets are clamped to the length.
Slice(s, a, b) == SubSeq(s, Min(a, Len(s)) + 1, Min(b, Len(s)))

\* Buffer.slice(a).
SliceFrom(s, a) == Slice(s, a, Len(s))

OccursAt(s, d, i) == i + Len(d) <= Len(s) /\ SubSeq(s, i + 1, i + Len(d)) = d

\* Buffer.indexOf(d): the lowest offset at which d occurs, or -1.
IndexOf(s, d) ==
    IF \E i \in 0..Len(s) : OccursAt(s, d, i)
    THEN CHOOSE i \in 0..Len(s) :
            OccursAt(s, d, i) /\ \A j \in 0..(i - 1) : ~OccursAt(s, d, j)
    ELSE 0 - 1

\* A concatenation that puts the second list first.
ConcatSwapped(a, b) == b \o a

\* Buffer.concat([a, b], a.length + b.length).
Concat(a, b) == a \o b

\* ------------------------------------------------------------- timers
Unarmed == [armed |-> FALSE, left |-> 0]
Armed(t) == [armed |-> TRUE, left |-> t]

\* setTimeout clamps a negative delay: the callback runs as soon as it can.
DelayOf(ms) == IF ms < 0 THEN 0 ELSE ms

\* ------------------------------------------------------------- state
VARIABLES
    io,             \* this.io: which capabilities the Endpoint holds
    srcOpen,        \* the readable stream given at construction can still emit
    outBuffer,      \* this.outBuffer
    history,        \* whether this run records emitted and consumed
    untilArgs,      \* the arguments this run's script passes to recvuntil
    lineArgs,       \* the arguments it passes to recvline and recvlinePred
    ctx,            \* TubeContext as this run's script has set it
    nEmitted,       \* how many bytes the source emitted
    dataListeners,  \* listeners of the Tube's "data" event, oldest first
    closeListeners, \* once-listeners of the stream's "close" event, oldest first
    microtasks,     \* the queue of promise continuations
    calls,          \* the calls made so far, each with its locals and its promise
    nCalls,         \* how many calls were made
    emitted,        \* history: every byte the source emitted
    consumed,       \* history: bytes the user received and kept
    held,           \* the result of the user's last call, not yet kept
    adapter         \* what IOFromProcess built: its streams, listeners and outStream

vars ==
    <<io, srcOpen, outBuffer, history, untilArgs, lineArgs, ctx, nEmitted, dataListeners,
      closeListeners, microtasks,
      calls, nCalls, emitted, consumed, held, adapter>>

\* A call that was not made yet.
NoCall ==
    [kind |-> "none", bytes |-> 0, timeout |-> 0, delims |-> <<>>, policy |-> "return",
     prom |-> "pending", value |-> <<>>, err |-> "",
     wait |-> "none", waitReject |-> FALSE, waitTimer |-> Unarmed,
     dat |-> <<>>, ret |-> <<>>, graceful |-> FALSE, shouldContinue |-> TRUE,
     expired |-> FALSE, timed |-> FALSE, dlTimer |-> Unarmed, age |-> 0,
     unhandled |-> FALSE, elapsed |-> FALSE, timedOut |-> FALSE, taken |-> <<>>,
     pushed |-> <<>>,
     keepends |-> FALSE, lineEnding |-> <<>>, linePolicy |-> "return",
     uprom |-> "pending", uvalue |-> <<>>,
     pred |-> "", predPolicy |-> "return", lvalue |-> <<>>, data |-> <<>>,
     dataSet |-> FALSE, scrapped |-> <<>>, pgraceful |-> FALSE, pshouldContinue |-> TRUE,
     pexpired |-> FALSE, ptimed |-> FALSE, pTimer |-> Unarmed, pelapsed |-> FALSE,
     seen |-> <<>>, invoked |-> FALSE, destroyOk |-> TRUE, can |-> FALSE,
     direction |-> "", got |-> "none"]

\* What a continuation may change, threaded through the operators below.
St ==
    [buf |-> outBuffer, calls |-> calls, dl |-> dataListeners, cl |-> closeListeners,
     mq |-> microtasks, held |-> held]

Commit(s) ==
    /\ outBuffer' = s.buf
    /\ calls' = s.calls
    /\ dataListeners' = s.dl
    /\ closeListeners' = s.cl
    /\ microtasks' = s.mq
    /\ held' = s.held
    /\ adapter' = adapter

Task(k, c) == [k |-> k, c |-> c]

Enqueue(s, k, c) == [s EXCEPT !.mq = Append(@, Task(k, c))]

\* res(v) of the promise a call returned; a settled promise ignores it.
Resolve(s, c, v) ==
    IF s.calls[c].prom = "pending"
    THEN [s EXCEPT !.calls[c].prom = "resolved", !.calls[c].value = v, !.held = v]
    ELSE s

\* rej(e) of the promise a call returned.
Reject(s, c, e) ==
    IF s.calls[c].prom = "pending"
    THEN [s EXCEPT !.calls[c].prom = "rejected", !.calls[c].err = e]
    ELSE s

\* ------------------------------------------------------------- IO.ts
isReadable(i) == i.output
isWritable(i) == i.input
isDestroyable(i) == i.destroy

IODestroyed == [output |-> FALSE, input |-> FALSE, destroy |-> FALSE]

\* The Endpoints a Tube is constructed on.
Endpoints ==
    { [output |-> TRUE, input |-> TRUE, destroy |-> TRUE],
      [output |-> FALSE, input |-> TRUE, destroy |-> TRUE] }

\* ------------------------------------------------------------- Tube.connected
InTokens == {"in", "read", "recv"}
OutTokens == {"out", "send", "write"}

\* An input that always counts as connected.
connectedInAlways(i, buf) == TRUE

connectedIn(i, buf) == isReadable(i) \/ Len(buf) > 0

\* A connected that answers the output tokens from the readable capability.
connectedOutAsIn(i) == isReadable(i)

connectedOut(i) == isWritable(i)

\* connected(direction) for a recognised token.
connected(direction, i, buf) ==
    CASE direction \in InTokens -> connectedIn(i, buf)
      [] direction \in OutTokens -> connectedOut(i)
      [] direction \in {"any", "either"} -> connectedIn(i, buf) \/ connectedOut(i)
      [] direction = "both" -> connectedIn(i, buf) /\ connectedOut(i)
      [] OTHER -> FALSE

\* connected(direction) throws "Invalid direction".
connectedThrows(direction) ==
    direction \notin InTokens \cup OutTokens \cup {"any", "either", "both"}

\* The direction tokens a script passes: the nine of lines 176-193 and two
\* that are none of them.
Directions ==
    InTokens \cup OutTokens \cup {"any", "either", "both", "", "input"}

\* Lines 175-195 as a call: the boolean returned, or the error thrown.
connectedCall(s, c, direction) ==
    IF connectedThrows(direction)
    THEN Reject(s, c, "Invalid direction")
    ELSE Resolve([s EXCEPT !.calls[c].can = connected(direction, io, s.buf)], c, s.held)

\* ------------------------------------------------------------- wait.ts
\* waitForEvent(this, "data", timeout, reject), lines 62-91: arm the timer when
\* the limit is a number >= 0, then emitter.once(event, handler).
waitForEvent(s, c, timeout, reject) ==
    [s EXCEPT !.calls[c].wait = "waiting",
              !.calls[c].waitReject = reject,
              !.calls[c].waitTimer = IF timeout >= 0 THEN Armed(timeout) ELSE Unarmed,
              !.dl = Append(@, c)]

\* handler, lines 64-73, run by the event: clear the timer, settle the promise.
\* Listener 0 belongs to a wait whose timer settled it before: its handler
\* clears a timer that has fired and settles a settled promise.
handler(s, c) ==
    IF c = 0 \/ s.calls[c].wait # "waiting"
    THEN s
    ELSE Enqueue([s EXCEPT !.calls[c].waitTimer = Unarmed, !.calls[c].wait = "event"],
                 "recv", c)

\* The timer's callback, lines 76-82.  It settles the promise and leaves the
\* listener on the emitter.
timerCallback(s, c) ==
    LET s1 == [s EXCEPT !.calls[c].waitTimer = Unarmed]
        dead == [i \in DOMAIN s.dl |-> IF s.dl[i] = c THEN 0 ELSE s.dl[i]]
    IN  IF s.calls[c].wait = "waiting"
        THEN Enqueue([s1 EXCEPT !.calls[c].wait = "timeout", !.dl = dead], "recv", c)
        ELSE s1

\* What the promise of a waitForEvent called by the script itself settles
\* with.  The handler (lines 64-73) and the timer's callback (lines 76-82) both
\* test `reject` first: rej("Hit timeout before event.") when it is set,
\* otherwise res(arguments) in the handler and res(null) in the callback.
waitSettle(s, c) ==
    IF s.calls[c].waitReject
    THEN Reject(s, c, "Hit timeout before event.")
    ELSE Resolve([s EXCEPT !.calls[c].got =
                        IF s.calls[c].wait = "event" THEN "arguments" ELSE "null"],
                 c, <<>>)

\* waitForEvent(this, "data", limit, reject) with a promise as the limit,
\* lines 62-63 and 84-90: no timer; limit.then is registered, then
\* emitter.once(event, handler).
waitForEventUntil(s, c, reject) ==
    [s EXCEPT !.calls[c].wait = "waiting",
              !.calls[c].waitReject = reject,
              !.dl = Append(@, c)]

\* emitter.off(event, handler), line 86.
off(s, c) == [s EXCEPT !.dl = SelectSeq(@, LAMBDA l : l # c)]

\* A limit callback that leaves the listener on the emitter.
limitThenAttached(s, c) == [handler(s, c) EXCEPT !.calls[c].timed = TRUE]

\* The callback of limit.then, lines 85-88: detach the listener, then run the
\* handler with the limit's value.
limitThen(s, c) == [handler(off(s, c), c) EXCEPT !.calls[c].timed = TRUE]

\* ------------------------------------------------------------- Tube.recv
\* A recv that asks waitForEvent to reject.
recvWaitRejecting == TRUE

\* The argument recv passes as waitForEvent's reject (line 264 passes none).
recvWaitReject == FALSE

\* The call runs recvuntil's loop: a recvuntil of the user, or one made by
\* recvline (line 446), itself called by the user or by recvlinePred (line 541).
RunsUntil(r) == r.kind \in {"recvuntil", "recvline", "recvlinePred"}

\* What recv's promise settling means to the call: a recv of the user settles
\* the call; a recv of recvuntil's loop or of clean's loop hands its result to
\* the loop.
recvReturn(s, c, first) ==
    IF RunsUntil(s.calls[c])
    THEN Enqueue([s EXCEPT !.calls[c].dat = first], "loop", c)
    ELSE IF s.calls[c].kind = "clean"
         THEN Enqueue([s EXCEPT !.calls[c].dat = first], "clean", c)
         ELSE Resolve(s, c, first)

\* recv throws.  Inside recvuntil's async executor nothing catches it: the
\* executor's own promise rejects and the promise recvuntil returned stays as it is.
recvThrow(s, c, e) ==
    IF RunsUntil(s.calls[c])
    THEN [s EXCEPT !.calls[c].unhandled = TRUE]
    ELSE Reject(s, c, e)

\* A recv that takes the whole buffer, whatever `bytes` is.
recvTakeAll(s, c, bytes) ==
    recvReturn([s EXCEPT !.buf = <<>>, !.calls[c].taken = @ \o s.buf], c, s.buf)

\* Lines 266-269: take up to `bytes` from the head of the buffer.
recvTake(s, c, bytes) ==
    LET first == Slice(s.buf, 0, bytes)
        second == SliceFrom(s.buf, bytes)
    IN  recvReturn([s EXCEPT !.buf = second, !.calls[c].taken = @ \o first], c, first)

\* Lines 260-265: recv up to its await.
recv(s, c, bytes, timeout) ==
    IF ~connected("in", io, s.buf)
    THEN recvThrow(s, c, "Cannot read from io object.")
    ELSE IF Len(s.buf) = 0
         THEN waitForEvent([s EXCEPT !.calls[c].bytes = bytes], c, timeout, recvWaitReject)
         ELSE recvTake(s, c, bytes)

\* unrecv putting the data behind the buffer instead of in front of it.
unrecvBehind(s, data) == [s EXCEPT !.buf = Concat(@, data)]

\* Lines 291-299.
unrecv(s, data) == [s EXCEPT !.buf = Concat(data, @)]

\* ------------------------------------------------------------- Tube.recvall
\* Lines 306-310.  With the stream retired, (this.io as IOReadable).output is
\* undefined and emitter.once throws a TypeError in waitForEvent's executor.
recvall(s, c) ==
    IF ~connected("in", io, s.buf)
    THEN Reject(s, c, "Cannot read from io object.")
    ELSE IF ~isReadable(io)
         THEN Reject(s, c, "TypeError")
         ELSE [s EXCEPT !.cl = Append(@, c), !.calls[c].wait = "waiting"]

\* Lines 311-313.
recvallReturnKept(s, c) == Resolve(s, c, s.buf)

recvallReturn(s, c) == Resolve([s EXCEPT !.buf = <<>>], c, s.buf)

\* ------------------------------------------------------------- Tube.recvuntil
\* resolve(): resolves the promise handed to waitForTime as `expire`.
resolveExpire(s, c) ==
    IF s.calls[c].expired
    THEN s
    ELSE Enqueue([s EXCEPT !.calls[c].expired = TRUE], "expire", c)

\* res(v) of the promise recvuntil returned: the promise of the user's call,
\* or the one recvline awaits on line 446.
untilRes(s, c, v) ==
    IF s.calls[c].kind = "recvuntil"
    THEN Resolve(s, c, v)
    ELSE IF s.calls[c].uprom = "pending"
         THEN Enqueue([s EXCEPT !.calls[c].uprom = "resolved", !.calls[c].uvalue = v],
                      "line", c)
         ELSE s

\* rej(e) of the promise recvuntil returned.
untilRej(s, c, e) ==
    IF s.calls[c].kind = "recvuntil"
    THEN Reject(s, c, e)
    ELSE IF s.calls[c].uprom = "pending"
         THEN Enqueue([s EXCEPT !.calls[c].uprom = "rejected"], "line", c)
         ELSE s

\* Lines 397-400.
loopExit(s, c) ==
    LET s1 == resolveExpire(s, c)
    IN  IF s1.calls[c].graceful THEN untilRes(s1, c, s1.calls[c].ret) ELSE s1

\* Lines 369-374: the loop's test and the body up to `await that.recv()`.
loopHead(s, c) ==
    IF s.calls[c].shouldContinue
    THEN IF ~connected("in", io, s.buf)
         THEN loopExit(resolveExpire(s, c), c)
         ELSE recv(s, c, ctx.bytes, ctx.longTimeout)
    ELSE loopExit(s, c)

\* indices.filter(v => v[1] != -1)
Found(ps) == SelectSeq(ps, LAMBDA v : v[2] # 0 - 1)

\* .sort((a, b) => a[1] - b[1]): Array.prototype.sort is stable.
RECURSIVE InsertByIndex(_, _)
InsertByIndex(sorted, p) ==
    IF sorted = <<>> THEN <<p>>
    ELSE IF p[2] < Head(sorted)[2]
         THEN <<p>> \o sorted
         ELSE <<Head(sorted)>> \o InsertByIndex(Tail(sorted), p)

RECURSIVE SortInto(_, _)
SortInto(sorted, rest) ==
    IF rest = <<>> THEN sorted
    ELSE SortInto(InsertByIndex(sorted, Head(rest)), Tail(rest))

\* The found delimiters left in the order of the list.
SortByIndexSkipped(ps) == ps

SortByIndex(ps) == SortInto(<<>>, ps)

\* Lines 376-382.
Indices(delims, ret) ==
    SortByIndex(Found([i \in DOMAIN delims |-> <<delims[i], IndexOf(ret, delims[i])>>]))

\* Line 391: what becomes of the buffer when a delimiter was found.
bufferAfterMatch(buf, second) == second

\* A loop that searches the last recv's bytes only, forgetting what it had
\* accumulated.
loopBodyForgetful(s, c) ==
    LET ret == s.calls[c].dat
        indices == Indices(s.calls[c].delims, ret)
    IN  IF indices # <<>>
        THEN LET cut == indices[1][2] + Len(indices[1][1])
                 first == Slice(ret, 0, cut)
                 second == SliceFrom(ret, cut)
             IN  loopExit([s EXCEPT !.buf = bufferAfterMatch(@, second),
                                    !.calls[c].ret = first,
                                    !.calls[c].graceful = TRUE], c)
        ELSE loopHead([s EXCEPT !.calls[c].ret = ret], c)

\* Lines 375-396: the loop's body after `await that.recv()`.
loopBody(s, c) ==
    LET ret == Concat(s.calls[c].ret, s.calls[c].dat)
        indices == Indices(s.calls[c].delims, ret)
    IN  IF indices # <<>>
        THEN LET cut == indices[1][2] + Len(indices[1][1])
                 first == Slice(ret, 0, cut)
                 second == SliceFrom(ret, cut)
             IN  loopExit([s EXCEPT !.buf = bufferAfterMatch(@, second),
                                    !.calls[c].ret = first,
                                    !.calls[c].graceful = TRUE], c)
        ELSE loopHead([s EXCEPT !.calls[c].ret = ret], c)

\* wait.ts lines 108-115, reject = false: expire resolved first.
\* A waitForTime that resolves with true also when it is preempted.
expireThenTrue(s, c) ==
    LET s1 == [s EXCEPT !.calls[c].dlTimer = Unarmed]
    IN  IF s1.calls[c].timed
        THEN s1
        ELSE Enqueue([s1 EXCEPT !.calls[c].timed = TRUE, !.calls[c].elapsed = TRUE],
                     "deadline", c)

expireThen(s, c) ==
    LET s1 == [s EXCEPT !.calls[c].dlTimer = Unarmed]
    IN  IF s1.calls[c].timed
        THEN s1
        ELSE Enqueue([s1 EXCEPT !.calls[c].timed = TRUE], "deadline", c)

\* wait.ts lines 104-106: the timer of waitForTime fired.
timeCallback(s, c) ==
    LET s1 == [s EXCEPT !.calls[c].dlTimer = Unarmed]
    IN  IF s1.calls[c].timed
        THEN s1
        ELSE Enqueue([s1 EXCEPT !.calls[c].timed = TRUE, !.calls[c].elapsed = TRUE],
                     "deadline", c)

\* Lines 352-365: what runs when waitForTime's promise resolves.
deadlineCallback(s, c) ==
    IF s.calls[c].graceful
    THEN s
    ELSE LET ret == s.calls[c].ret
             handleIncomplete == s.calls[c].policy
             s1 == CASE handleIncomplete = "buffer" -> unrecv(s, ret)
                     [] handleIncomplete = "throw" ->
                            untilRej(unrecv(s, ret), c, "Timeout before reaching deliminator.")
                     [] OTHER -> untilRes(s, c, ret)
         IN  [s1 EXCEPT !.calls[c].shouldContinue = FALSE,
                        !.calls[c].timedOut = TRUE,
                        !.calls[c].pushed = IF handleIncomplete = "return" THEN <<>> ELSE ret]

\* Lines 341-368: the executor up to the loop.  It is an async function: its
\* throw rejects a promise nobody holds.
recvuntil(s, c, timeout) ==
    IF ~connected("in", io, s.buf)
    THEN [s EXCEPT !.calls[c].unhandled = TRUE]
    ELSE loopHead([s EXCEPT !.calls[c].dlTimer = Armed(DelayOf(timeout))], c)

\* ------------------------------------------------------------- Tube.recvline
\* The locals of one run of recvuntil's executor, lines 345-348.
untilLocals(r, delims, timeout, handleIncomplete) ==
    [r EXCEPT !.delims = delims, !.timeout = timeout, !.policy = handleIncomplete,
              !.dat = <<>>, !.ret = <<>>, !.graceful = FALSE, !.shouldContinue = TRUE,
              !.expired = FALSE, !.timed = FALSE, !.dlTimer = Unarmed, !.age = 0,
              !.unhandled = FALSE, !.elapsed = FALSE, !.timedOut = FALSE,
              !.uprom = "pending", !.uvalue = <<>>]

\* Buffer.slice(-n): the last n bytes.
SliceLast(s, n) == SubSeq(s, (IF Len(s) > n THEN Len(s) - n ELSE 0) + 1, Len(s))

\* A recvline that cuts nothing off the end of the line.
strippedBytesNone(lineEnding) == 0

\* Line 455: what recvline cuts off the end of the line.
strippedBytes(lineEnding) == 1

\* recvline returns: to the user, or to recvlinePred's loop (line 541).
lineReturn(s, c, v) ==
    IF s.calls[c].kind = "recvline"
    THEN Resolve(s, c, v)
    ELSE Enqueue([s EXCEPT !.calls[c].lvalue = v], "pred", c)

\* recvline passing on the error of recvuntil.
lineThrowSame(s, c, e) == Reject(s, c, "Timeout before reaching deliminator.")

\* recvline throws (line 464).
lineThrow(s, c, e) ==
    IF s.calls[c].kind = "recvline"
    THEN Reject(s, c, e)
    ELSE [s EXCEPT !.calls[c].unhandled = TRUE]

\* Lines 444-450: recvline up to its await.
recvline(s, c, keepends, timeout, handleIncomplete, lineEnding) ==
    recvuntil([s EXCEPT !.calls[c] =
                    [untilLocals(@, <<lineEnding>>, timeout, "throw") EXCEPT
                        !.keepends = keepends, !.linePolicy = handleIncomplete,
                        !.lineEnding = lineEnding]],
              c, timeout)

\* Lines 451-468: recvline after `await this.recvuntil(...)`.
recvlineAfter(s, c) ==
    LET r == s.calls[c]
        data == r.uvalue
    IN  IF r.uprom = "resolved"
        THEN IF ~r.keepends /\ SliceLast(data, Len(r.lineEnding)) = r.lineEnding
             THEN lineReturn(s, c, Slice(data, 0, Len(data) - strippedBytes(r.lineEnding)))
             ELSE lineReturn(s, c, data)
        ELSE CASE r.linePolicy = "return" -> lineReturn([s EXCEPT !.buf = <<>>], c, s.buf)
               [] r.linePolicy = "throw" -> lineThrow(s, c, "Could not find a newline.")
               [] OTHER -> lineReturn(s, c, <<>>)

\* ------------------------------------------------------------- Tube.recvlinePred
\* resolve(): resolves the promise handed to waitForTime as `expire` (line 525).
predResolveExpire(s, c) ==
    IF s.calls[c].pexpired
    THEN s
    ELSE Enqueue([s EXCEPT !.calls[c].pexpired = TRUE], "pexpire", c)

\* Line 549.
predLoopExit(s, c) == predResolveExpire(s, c)

\* Line 541: the loop's test up to `await that.recvline(...)`.
predLoopHead(s, c) ==
    IF s.calls[c].pshouldContinue /\ connected("in", io, s.buf)
    THEN recvline(s, c, s.calls[c].keepends, s.calls[c].timeout, "buffer",
                  s.calls[c].lineEnding)
    ELSE predLoopExit(s, c)

\* Lines 541-548: the loop after `await that.recvline(...)`.
predLoopBody(s, c) ==
    LET data == s.calls[c].lvalue
        s1 == [s EXCEPT !.calls[c].data = data, !.calls[c].dataSet = TRUE]
    IN  IF Len(data) # 0
        THEN LET s2 == [s1 EXCEPT !.calls[c].seen = Append(@, data)]
             IN  IF pred(s.calls[c].pred, data)
                 THEN predLoopExit([Resolve(s2, c, data) EXCEPT !.calls[c].pgraceful = TRUE],
                                   c)
                 ELSE predLoopHead([s2 EXCEPT !.calls[c].scrapped = Concat(@, data)], c)
        ELSE predLoopExit(s1, c)

\* wait.ts lines 108-115: expire resolved first.
predExpireThen(s, c) ==
    LET s1 == [s EXCEPT !.calls[c].pTimer = Unarmed]
    IN  IF s1.calls[c].ptimed
        THEN s1
        ELSE Enqueue([s1 EXCEPT !.calls[c].ptimed = TRUE], "pdeadline", c)

\* wait.ts lines 104-106: the timer of waitForTime fired.
predTimeCallback(s, c) ==
    LET s1 == [s EXCEPT !.calls[c].pTimer = Unarmed]
    IN  IF s1.calls[c].ptimed
        THEN s1
        ELSE Enqueue([s1 EXCEPT !.calls[c].ptimed = TRUE, !.calls[c].pelapsed = TRUE],
                     "pdeadline", c)

\* Lines 526-540.  Under "return", `data` is undefined until the first
\* recvline has returned: `data.length` throws in the callback, which ends
\* before line 539.
predDeadlineCallback(s, c) ==
    LET r == s.calls[c]
        stop(s1) == [s1 EXCEPT !.calls[c].pshouldContinue = FALSE]
    IN  IF r.pgraceful
        THEN s
        ELSE CASE r.predPolicy = "throw" ->
                    stop(unrecv(Reject(s, c, "Timeout before reaching deliminator."),
                                r.scrapped))
               [] r.predPolicy = "buffer" ->
                    stop(unrecv(Resolve(s, c, <<>>), r.scrapped))
               [] OTHER ->
                    IF r.dataSet
                    THEN stop(Resolve(s, c, Concat(r.scrapped, r.data)))
                    ELSE [s EXCEPT !.calls[c].unhandled = TRUE]

\* Lines 517-541: the executor up to the loop's first await.
recvlinePred(s, c, p, keepends, timeout, handleIncomplete, lineEnding) ==
    predLoopHead([s EXCEPT !.calls[c].pred = p, !.calls[c].keepends = keepends,
                           !.calls[c].timeout = timeout,
                           !.calls[c].predPolicy = handleIncomplete,
                           !.calls[c].lineEnding = lineEnding,
                           !.calls[c].pTimer = Armed(DelayOf(timeout))], c)

\* ------------------------------------------------------------- waitForTime
\* waitForTime(time, expire) called by the script itself, wait.ts lines
\* 102-107: arm the timer; expire.then is registered by line 108.
waitForTime(s, c, time) == [s EXCEPT !.calls[c].dlTimer = Armed(DelayOf(time))]

\* What the script sees of the promise: the boolean it was resolved with,
\* true by the timer's callback (line 105), false by expire.then (line 113).
waitForTimeThen(s, c) == Resolve([s EXCEPT !.calls[c].can = s.calls[c].elapsed], c, <<>>)

\* ------------------------------------------------------------- Tube.canRecv
CanRecvTimeouts == {0 - 1, 0, 1}

\* Math.max(timeout * 1000, 0), line 597.
Max(a, b) == IF a > b THEN a ELSE b

\* canRecv's promise resolves with a boolean.
canReturn(s, c, b) == Resolve([s EXCEPT !.calls[c].can = b], c, <<>>)

\* Lines 594-597: canRecv up to its await.
canRecv(s, c, timeout) ==
    IF Len(s.buf) > 0
    THEN canReturn(s, c, TRUE)
    ELSE waitForEvent(s, c, Max(timeout, 0), FALSE)

\* A canRecv that answers true whatever the buffer holds.
canRecvAfterTrue(s, c) == canReturn(s, c, TRUE)

\* Line 598.
canRecvAfter(s, c) == canReturn(s, c, Len(s.buf) > 0)

\* ------------------------------------------------------------- Tube.clean
CleanTimeouts == {0 - 1, 0, 1}

\* Lines 614-620: the loop's test up to `await this.recv(4096, timeout)`, and
\* the return when the test fails on connected("in").
cleanLoopHead(s, c) ==
    IF connected("in", io, s.buf)
    THEN recv(s, c, ChunkBytes, s.calls[c].timeout)
    ELSE Resolve(s, c, s.calls[c].ret)

\* A clean that resolves with what its last recv returned.
cleanLoopBodyLast(s, c) ==
    LET data == s.calls[c].dat
    IN  IF Len(data) # 0
        THEN cleanLoopHead([s EXCEPT !.calls[c].ret = data], c)
        ELSE Resolve(s, c, s.calls[c].ret)

\* Lines 614-620 after the await.
cleanLoopBody(s, c) ==
    LET data == s.calls[c].dat
    IN  IF Len(data) # 0
        THEN cleanLoopHead([s EXCEPT !.calls[c].ret = Concat(@, data)], c)
        ELSE Resolve(s, c, s.calls[c].ret)

\* A clean that returns the buffer and leaves it as it is.
cleanNowKept(s, c) == Resolve(s, c, s.buf)

\* Lines 607-611.
cleanNow(s, c) == Resolve([s EXCEPT !.buf = <<>>], c, s.buf)

\* Lines 606-621 up to the first await.
clean(s, c, timeout) ==
    IF timeout <= 0
    THEN cleanNow(s, c)
    ELSE cleanLoopHead([s EXCEPT !.calls[c].ret = <<>>, !.calls[c].timeout = timeout], c)

\* ------------------------------------------------------------- Tube.close
\* Lines 639-641: close() up to `await this.io.destroy()`; ok is whether the
\* Endpoint's destroy succeeds.  Without a destroy capability line 642 is
\* reached within the call.
close(s, c, ok) ==
    IF isDestroyable(io)
    THEN Enqueue([s EXCEPT !.calls[c].invoked = TRUE, !.calls[c].destroyOk = ok],
                 "close", c)
    ELSE Resolve(s, c, <<>>)

\* Lines 640-643 after the await: the failure of destroy leaves close() at
\* line 640.
closeAfter(s, c) ==
    IF s.calls[c].destroyOk
    THEN Resolve(s, c, <<>>)
    ELSE Reject(s, c, "destroy failed")

\* Line 642, which a failed destroy does not reach.
ioAfterClose(i, reached) == IF reached THEN IODestroyed ELSE i

\* ------------------------------------------------------------- IOFromProcess
Readables == {"stdout", "stderr"}

\* A Tube built on an Endpoint that no process adapter made.
NoProcess ==
    [impl |-> "none", streams |-> <<>>, unfinished |-> <<>>, count |-> 0,
     onEnd |-> {}, onClose |-> {},
     ends |-> [st \in Readables |-> 0], closes |-> [st \in Readables |-> 0],
     outStream |-> "open"]

\* [p.stdout], and p.stderr pushed when the process has one.
streamsOf(stderr) == IF stderr THEN <<"stdout", "stderr">> ELSE <<"stdout">>

ElementsOf(seq) == {seq[i] : i \in DOMAIN seq}

\* models/Process.ts as the package's other files use it (the Endpoint carries
\* `orig`): `unfinished` is the array of streams, and each stream gets
\* once("close", decrement) and once("end", decrement).
IOFromProcess(stderr) ==
    [NoProcess EXCEPT !.impl = "list", !.streams = streamsOf(stderr),
                      !.unfinished = streamsOf(stderr),
                      !.onEnd = ElementsOf(streamsOf(stderr)),
                      !.onClose = ElementsOf(streamsOf(stderr))]

\* src/models/Process.ts: `unfinished` is a number, and each stream gets
\* once("end", ...) only.
IOFromProcessByCount(stderr) ==
    [NoProcess EXCEPT !.impl = "count", !.streams = streamsOf(stderr),
                      !.count = Len(streamsOf(stderr)),
                      !.onEnd = ElementsOf(streamsOf(stderr))]

\* unfinished.indexOf(this): the offset of the stream, or -1.
indexOf(list, st) ==
    IF \E i \in DOMAIN list : list[i] = st
    THEN (CHOOSE i \in DOMAIN list : list[i] = st /\ \A j \in 1..(i - 1) : list[j] # st) - 1
    ELSE 0 - 1

\* unfinished.splice(index, 1).
splice(list, index) == SubSeq(list, 1, index) \o SubSeq(list, index + 2, Len(list))

\* A decrement that drops one stream of the list at every call, whichever
\* stream signalled.
decrementAny(a, st) ==
    LET unfinished == IF a.unfinished # <<>> THEN Tail(a.unfinished) ELSE a.unfinished
    IN  [a EXCEPT !.unfinished = unfinished,
                  !.outStream = IF Len(unfinished) = 0 THEN "destroyed" ELSE @]

\* decrement, the listener of "close" and "end".
decrement(a, st) ==
    LET index == indexOf(a.unfinished, st)
        unfinished == IF index # 0 - 1 THEN splice(a.unfinished, index) ELSE a.unfinished
    IN  [a EXCEPT !.unfinished = unfinished,
                  !.outStream = IF Len(unfinished) = 0 THEN "destroyed" ELSE @]

\* The listener of "end" in src/models/Process.ts, lines 38-43.
endListener(a) ==
    [a EXCEPT !.count = @ - 1,
              !.outStream = IF a.count - 1 = 0 THEN "ended" ELSE @]

\* The stream emits "end": its once-listener, if still attached, is removed
\* and run.
emitEnd(a, st) ==
    LET a1 == [a EXCEPT !.ends[st] = @ + 1, !.onEnd = @ \ {st}]
    IN  IF st \notin a.onEnd THEN a1
        ELSE IF a.impl = "list" THEN decrement(a1, st) ELSE endListener(a1)

\* The stream emits "close".
emitClose(a, st) ==
    LET a1 == [a EXCEPT !.closes[st] = @ + 1, !.onClose = @ \ {st}]
    IN  IF st \notin a.onClose THEN a1 ELSE decrement(a1, st)

\* ------------------------------------------------------------- events
RECURSIVE runHandlers(_, _)
runHandlers(s, ls) ==
    IF ls = <<>> THEN s ELSE runHandlers(handler(s, Head(ls)), Tail(ls))

\* this.emit("data", ...): once-listeners are removed, then run in order.
emitData(s) == runHandlers([s EXCEPT !.dl = <<>>], s.dl)

RECURSIVE runCloseHandlers(_, _)
runCloseHandlers(s, ls) ==
    IF ls = <<>> THEN s
    ELSE runCloseHandlers(
            Enqueue([s EXCEPT !.calls[Head(ls)].wait = "event"], "recvall", Head(ls)),
            Tail(ls))

\* ------------------------------------------------------------- actions
InitTube ==
    /\ io \in Endpoints
    /\ srcOpen = io.output
    /\ outBuffer = <<>>
    /\ nEmitted = 0
    /\ dataListeners = <<>>
    /\ closeListeners = <<>>
    /\ microtasks = <<>>
    /\ calls = [c \in 1..MaxCalls |-> NoCall]
    /\ nCalls = 0
    /\ emitted = <<>>
    /\ consumed = <<>>
    /\ held = <<>>
    /\ adapter = NoProcess

\* The arguments of a run that makes no recvline or recvlinePred call.
NoLineArgs ==
    [keepends |-> FALSE, timeout |-> 1, handleIncomplete |-> "return",
     lineEnding |-> <<2>>, pred |-> "starts1"]

\* The arguments of a run that makes no recvuntil call.
NoUntilArgs == [delims |-> << <<1, 1>> >>, timeout |-> 1, handleIncomplete |-> "return"]

Init ==
    /\ InitTube
    /\ history = FALSE
    /\ untilArgs \in UntilArgs
    /\ lineArgs = NoLineArgs
    /\ ctx = TubeContext

InitRecv ==
    /\ InitTube
    /\ history = TRUE
    /\ untilArgs = NoUntilArgs
    /\ lineArgs = NoLineArgs
    /\ ctx = TubeContext

\* The stream's "data" event, constructor lines 153-162.
ChunkArrival(data) ==
    /\ microtasks = <<>>
    /\ srcOpen
    /\ nEmitted + Len(data) <= MaxEmit
    /\ Commit(emitData([St EXCEPT !.buf = Concat(@, data)]))
    /\ nEmitted' = nEmitted + Len(data)
    /\ emitted' = IF history THEN emitted \o data ELSE emitted
    /\ UNCHANGED <<io, srcOpen, history, untilArgs, lineArgs, ctx, nCalls, consumed>>

\* A close of the source that retires the stream without the empty "data"
\* notification.
SourceCloseSilent ==
    /\ microtasks = <<>>
    /\ srcOpen
    /\ Commit(runCloseHandlers([St EXCEPT !.cl = <<>>], St.cl))
    /\ io' = [io EXCEPT !.output = FALSE]
    /\ srcOpen' = FALSE
    /\ UNCHANGED <<history, untilArgs, lineArgs, ctx, nEmitted, nCalls, emitted, consumed>>

\* The stream's "close" event: the constructor's listener (lines 163-166)
\* runs first, then the once-listeners recvall added.
SourceClose ==
    /\ microtasks = <<>>
    /\ srcOpen
    /\ LET s1 == emitData(St)
       IN  Commit(runCloseHandlers([s1 EXCEPT !.cl = <<>>], s1.cl))
    /\ io' = [io EXCEPT !.output = FALSE]
    /\ srcOpen' = FALSE
    /\ UNCHANGED <<history, untilArgs, lineArgs, ctx, nEmitted, nCalls, emitted, consumed>>

TimerDue(t) == t.armed /\ t.left = 0

Elapse(t) == IF t.armed THEN Armed(t.left - 1) ELSE t

\* How long ago a recvuntil was called, counted up to its timeout.
Older(r) ==
    IF r.kind = "recvuntil" /\ r.age < DelayOf(r.timeout) THEN r.age + 1 ELSE r.age

\* One unit of time passes: only when no timer is due, and some timer runs.
Tick ==
    /\ microtasks = <<>>
    /\ \A c \in 1..MaxCalls :
            /\ ~TimerDue(calls[c].waitTimer)
            /\ ~TimerDue(calls[c].dlTimer)
            /\ ~TimerDue(calls[c].pTimer)
    /\ \E c \in 1..MaxCalls :
            calls[c].waitTimer.armed \/ calls[c].dlTimer.armed \/ calls[c].pTimer.armed
    /\ calls' = [c \in 1..MaxCalls |->
                    [calls[c] EXCEPT !.waitTimer = Elapse(@), !.dlTimer = Elapse(@),
                                     !.pTimer = Elapse(@), !.age = Older(calls[c])]]
    /\ UNCHANGED <<io, srcOpen, outBuffer, history, untilArgs, lineArgs, ctx, nEmitted, dataListeners,
                   closeListeners, microtasks, nCalls, emitted, consumed, held, adapter>>

\* The timer of a waitForEvent fires.
WaitTimerFire(c) ==
    /\ microtasks = <<>>
    /\ TimerDue(calls[c].waitTimer)
    /\ Commit(timerCallback(St, c))
    /\ UNCHANGED <<io, srcOpen, history, untilArgs, lineArgs, ctx, nEmitted, nCalls, emitted, consumed>>

\* The timer of recvuntil's waitForTime fires.
\* The timer of recvlinePred was armed earlier with the same delay: when both
\* are due it fires first.
DeadlineTimerFire(c) ==
    /\ microtasks = <<>>
    /\ TimerDue(calls[c].dlTimer)
    /\ ~TimerDue(calls[c].pTimer)
    /\ Commit(timeCallback(St, c))
    /\ UNCHANGED <<io, srcOpen, history, untilArgs, lineArgs, ctx, nEmitted, nCalls, emitted, consumed>>

HeadIs(k) == microtasks # <<>> /\ Head(microtasks).k = k

Popped == [St EXCEPT !.mq = Tail(@)]

\* recv resumes after `await waitForEvent(...)`.
RecvResume ==
    /\ HeadIs("recv")
    /\ LET c == Head(microtasks).c
       IN  Commit(IF calls[c].kind = "canRecv"
                  THEN canRecvAfter(Popped, c)
                  ELSE IF calls[c].kind \in {"waitForEvent", "waitForEventUntil"}
                  THEN waitSettle(Popped, c)
                  ELSE IF calls[c].waitReject
                       THEN recvThrow(Popped, c, "Hit timeout before event.")
                       ELSE recvTake(Popped, c, calls[c].bytes))
    /\ UNCHANGED <<io, srcOpen, history, untilArgs, lineArgs, ctx, nEmitted, nCalls, emitted, consumed>>

\* recvuntil's loop resumes after `await that.recv()`.
LoopResume ==
    /\ HeadIs("loop")
    /\ Commit(loopBody(Popped, Head(microtasks).c))
    /\ UNCHANGED <<io, srcOpen, history, untilArgs, lineArgs, ctx, nEmitted, nCalls, emitted, consumed>>

\* waitForTime's expire.then callback.
ExpireResume ==
    /\ HeadIs("expire")
    /\ Commit(expireThen(Popped, Head(microtasks).c))
    /\ UNCHANGED <<io, srcOpen, history, untilArgs, lineArgs, ctx, nEmitted, nCalls, emitted, consumed>>

\* recvuntil's waitForTime(...).then callback.
DeadlineResume ==
    /\ HeadIs("deadline")
    /\ LET c == Head(microtasks).c
       IN  Commit(IF calls[c].kind = "waitForTime"
                  THEN waitForTimeThen(Popped, c)
                  ELSE deadlineCallback(Popped, c))
    /\ UNCHANGED <<io, srcOpen, history, untilArgs, lineArgs, ctx, nEmitted, nCalls, emitted, consumed>>

\* recvall resumes after `await waitForEvent(output, "close", -1)`.
RecvallResume ==
    /\ HeadIs("recvall")
    /\ Commit(recvallReturn(Popped, Head(microtasks).c))
    /\ UNCHANGED <<io, srcOpen, history, untilArgs, lineArgs, ctx, nEmitted, nCalls, emitted, consumed>>

\* The user calls the Tube one call at a time, between event-loop turns.
CanCall ==
    /\ microtasks = <<>>
    /\ IF nCalls = 0 THEN TRUE ELSE calls[nCalls].prom # "pending"

\* The state a new call starts from: the last result is kept by the user.
Begin(c, rec) == [St EXCEPT !.calls[c] = rec, !.held = <<>>]

CallRecv(bytes, timeout) ==
    /\ CanCall
    /\ nCalls < MaxCalls
    /\ LET c == nCalls + 1
           rec == [NoCall EXCEPT !.kind = "recv", !.bytes = bytes, !.timeout = timeout]
       IN  Commit(recv(Begin(c, rec), c, bytes, timeout))
    /\ nCalls' = nCalls + 1
    /\ consumed' = IF history THEN consumed \o held ELSE consumed
    /\ UNCHANGED <<io, srcOpen, history, untilArgs, lineArgs, ctx, nEmitted, emitted>>

\* The user pushes back the last k bytes of the result it holds.
CallUnrecv(k) ==
    /\ CanCall
    /\ k \in 1..Len(held)
    /\ Commit(unrecv([St EXCEPT !.held = SubSeq(held, 1, Len(held) - k)],
                     SubSeq(held, Len(held) - k + 1, Len(held))))
    /\ UNCHANGED <<io, srcOpen, history, untilArgs, lineArgs, ctx, nEmitted, nCalls, emitted, consumed>>

CallRecvall ==
    /\ CanCall
    /\ nCalls < MaxCalls
    /\ LET c == nCalls + 1
           rec == [NoCall EXCEPT !.kind = "recvall"]
       IN  Commit(recvall(Begin(c, rec), c))
    /\ nCalls' = nCalls + 1
    /\ consumed' = IF history THEN consumed \o held ELSE consumed
    /\ UNCHANGED <<io, srcOpen, history, untilArgs, lineArgs, ctx, nEmitted, emitted>>

CallRecvuntil ==
    /\ CanCall
    /\ nCalls < MaxCalls
    /\ LET c == nCalls + 1
           rec == [NoCall EXCEPT !.kind = "recvuntil", !.delims = untilArgs.delims,
                                 !.timeout = untilArgs.timeout,
                                 !.policy = untilArgs.handleIncomplete]
       IN  Commit(recvuntil(Begin(c, rec), c, untilArgs.timeout))
    /\ nCalls' = nCalls + 1
    /\ consumed' = IF history THEN consumed \o held ELSE consumed
    /\ UNCHANGED <<io, srcOpen, history, untilArgs, lineArgs, ctx, nEmitted, emitted>>

Environment ==
    \/ \E data \in Chunks : ChunkArrival(data)
    \/ SourceClose
    \/ Tick
    \/ \E c \in 1..MaxCalls : WaitTimerFire(c)

Next ==
    \/ Environment
    \/ \E c \in 1..MaxCalls : DeadlineTimerFire(c)
    \/ RecvResume
    \/ LoopResume
    \/ ExpireResume
    \/ DeadlineResume
    \/ RecvallResume
    \/ \E bytes \in RecvSizes, timeout \in RecvTimeouts : CallRecv(bytes, timeout)
    \/ CallRecvall
    \/ CallRecvuntil

Spec == Init /\ [][Next]_vars

\* The script passes a negative timeout to recvuntil.
InitNoDeadline ==
    /\ InitTube
    /\ history = FALSE
    /\ untilArgs \in [delims : DelimLists, timeout : {0 - 1}, handleIncomplete : Policies]
    /\ lineArgs = NoLineArgs
    /\ ctx = TubeContext

SpecNoDeadline == InitNoDeadline /\ [][Next]_vars

\* A Tube on the Endpoint of a process, with or without stderr, made by
\* either version of IOFromProcess.
InitProcess ==
    /\ io = [output |-> TRUE, input |-> TRUE, destroy |-> TRUE]
    /\ srcOpen = TRUE
    /\ outBuffer = <<>>
    /\ nEmitted = 0
    /\ dataListeners = <<>>
    /\ closeListeners = <<>>
    /\ microtasks = <<>>
    /\ calls = [c \in 1..MaxCalls |-> NoCall]
    /\ nCalls = 0
    /\ emitted = <<>>
    /\ consumed = <<>>
    /\ held = <<>>
    /\ history = TRUE
    /\ untilArgs = NoUntilArgs
    /\ lineArgs = NoLineArgs
    /\ ctx = TubeContext
    /\ adapter \in {IOFromProcess(stderr) : stderr \in BOOLEAN}
                    \cup {IOFromProcessByCount(stderr) : stderr \in BOOLEAN}

\* A stream that signalled neither "end" nor "close" can still deliver.
Flowing(st) == adapter.ends[st] = 0 /\ adapter.closes[st] = 0

\* stream.pipe(outStream, {end: false}): a chunk of a stream of the process
\* is written to outStream, whose "data" event the Tube listens to.
StreamData(st, data) ==
    /\ st \in ElementsOf(adapter.streams)
    /\ Flowing(st)
    /\ adapter.outStream = "open"
    /\ ChunkArrival(data)

\* A stream of the process emits "end".
StreamEnd(st) ==
    /\ st \in ElementsOf(adapter.streams)
    /\ adapter.ends[st] < MaxSignals
    /\ adapter' = emitEnd(adapter, st)
    /\ UNCHANGED <<io, srcOpen, outBuffer, history, untilArgs, lineArgs, ctx, nEmitted,
                   dataListeners, closeListeners, microtasks, calls, nCalls, emitted, consumed,
                   held>>

\* A stream of the process emits "close".
StreamClosed(st) ==
    /\ st \in ElementsOf(adapter.streams)
    /\ adapter.closes[st] < MaxSignals
    /\ adapter' = emitClose(adapter, st)
    /\ UNCHANGED <<io, srcOpen, outBuffer, history, untilArgs, lineArgs, ctx, nEmitted,
                   dataListeners, closeListeners, microtasks, calls, nCalls, emitted, consumed,
                   held>>

\* outStream, ended or destroyed, emits "close" to the Tube.
MergedClose == adapter.outStream # "open" /\ SourceClose

NextProcess ==
    \/ \E st \in Readables, data \in Chunks : StreamData(st, data)
    \/ \E st \in Readables : StreamEnd(st)
    \/ \E st \in Readables : StreamClosed(st)
    \/ MergedClose

SpecProcess == InitProcess /\ [][NextProcess]_vars

\* recvline resumes after `await this.recvuntil(...)`, resolved or rejected.
LineResume ==
    /\ HeadIs("line")
    /\ Commit(recvlineAfter(Popped, Head(microtasks).c))
    /\ UNCHANGED <<io, srcOpen, history, untilArgs, lineArgs, ctx, nEmitted, nCalls, emitted,
                   consumed>>

CallRecvline ==
    /\ CanCall
    /\ nCalls < MaxCalls
    /\ LET c == nCalls + 1
           rec == [NoCall EXCEPT !.kind = "recvline"]
       IN  Commit(recvline(Begin(c, rec), c, lineArgs.keepends, lineArgs.timeout,
                           lineArgs.handleIncomplete, lineArgs.lineEnding))
    /\ nCalls' = nCalls + 1
    /\ consumed' = IF history THEN consumed \o held ELSE consumed
    /\ UNCHANGED <<io, srcOpen, history, untilArgs, lineArgs, ctx, nEmitted, emitted>>

\* The timer of recvlinePred's waitForTime fires.
PredTimerFire(c) ==
    /\ microtasks = <<>>
    /\ TimerDue(calls[c].pTimer)
    /\ Commit(predTimeCallback(St, c))
    /\ UNCHANGED <<io, srcOpen, history, untilArgs, lineArgs, ctx, nEmitted, nCalls, emitted,
                   consumed>>

\* recvlinePred's loop resumes after `await that.recvline(...)`.
PredResume ==
    /\ HeadIs("pred")
    /\ Commit(predLoopBody(Popped, Head(microtasks).c))
    /\ UNCHANGED <<io, srcOpen, history, untilArgs, lineArgs, ctx, nEmitted, nCalls, emitted,
                   consumed>>

\* waitForTime's expire.then callback, for recvlinePred.
PredExpireResume ==
    /\ HeadIs("pexpire")
    /\ Commit(predExpireThen(Popped, Head(microtasks).c))
    /\ UNCHANGED <<io, srcOpen, history, untilArgs, lineArgs, ctx, nEmitted, nCalls, emitted,
                   consumed>>

\* recvlinePred's waitForTime(...).then callback.
PredDeadlineResume ==
    /\ HeadIs("pdeadline")
    /\ Commit(predDeadlineCallback(Popped, Head(microtasks).c))
    /\ UNCHANGED <<io, srcOpen, history, untilArgs, lineArgs, ctx, nEmitted, nCalls, emitted,
                   consumed>>

CallRecvlinePred ==
    /\ CanCall
    /\ nCalls < MaxCalls
    /\ LET c == nCalls + 1
           rec == [NoCall EXCEPT !.kind = "recvlinePred"]
       IN  Commit(recvlinePred(Begin(c, rec), c, lineArgs.pred, lineArgs.keepends,
                               lineArgs.timeout, lineArgs.handleIncomplete,
                               lineArgs.lineEnding))
    /\ nCalls' = nCalls + 1
    /\ consumed' = IF history THEN consumed \o held ELSE consumed
    /\ UNCHANGED <<io, srcOpen, history, untilArgs, lineArgs, ctx, nEmitted, emitted>>

CallCanRecv(timeout) ==
    /\ CanCall
    /\ nCalls < MaxCalls
    /\ LET c == nCalls + 1
           rec == [NoCall EXCEPT !.kind = "canRecv", !.timeout = timeout]
       IN  Commit(canRecv(Begin(c, rec), c, timeout))
    /\ nCalls' = nCalls + 1
    /\ consumed' = IF history THEN consumed \o held ELSE consumed
    /\ UNCHANGED <<io, srcOpen, history, untilArgs, lineArgs, ctx, nEmitted, emitted>>

\* clean's loop resumes after `await this.recv(4096, timeout)`.
CleanResume ==
    /\ HeadIs("clean")
    /\ Commit(cleanLoopBody(Popped, Head(microtasks).c))
    /\ UNCHANGED <<io, srcOpen, history, untilArgs, lineArgs, ctx, nEmitted, nCalls, emitted,
                   consumed>>

CallClean(timeout) ==
    /\ CanCall
    /\ nCalls < MaxCalls
    /\ LET c == nCalls + 1
           rec == [NoCall EXCEPT !.kind = "clean", !.timeout = timeout]
       IN  Commit(clean(Begin(c, rec), c, timeout))
    /\ nCalls' = nCalls + 1
    /\ consumed' = IF history THEN consumed \o held ELSE consumed
    /\ UNCHANGED <<io, srcOpen, history, untilArgs, lineArgs, ctx, nEmitted, emitted>>

\* connected() is synchronous: what the caller holds from its last call stays
\* with the caller.
CallConnected(direction) ==
    /\ CanCall
    /\ nCalls < MaxCalls
    /\ LET c == nCalls + 1
           rec == [NoCall EXCEPT !.kind = "connected", !.direction = direction]
       IN  Commit(connectedCall([St EXCEPT !.calls[c] = rec], c, direction))
    /\ nCalls' = nCalls + 1
    /\ UNCHANGED <<io, srcOpen, history, untilArgs, lineArgs, ctx, nEmitted, emitted,
                   consumed>>

\* The script calls waitForEvent(tube, "data", timeout, reject) itself.
CallWaitForEvent(timeout, reject) ==
    /\ CanCall
    /\ nCalls < MaxCalls
    /\ LET c == nCalls + 1
           rec == [NoCall EXCEPT !.kind = "waitForEvent", !.timeout = timeout]
       IN  Commit(waitForEvent(Begin(c, rec), c, timeout, reject))
    /\ nCalls' = nCalls + 1
    /\ consumed' = IF history THEN consumed \o held ELSE consumed
    /\ UNCHANGED <<io, srcOpen, history, untilArgs, lineArgs, ctx, nEmitted, emitted>>

\* The script calls waitForTime(time, expire) itself.
CallWaitForTime(time) ==
    /\ CanCall
    /\ nCalls < MaxCalls
    /\ LET c == nCalls + 1
           rec == [NoCall EXCEPT !.kind = "waitForTime", !.timeout = time]
       IN  Commit(waitForTime(Begin(c, rec), c, time))
    /\ nCalls' = nCalls + 1
    /\ consumed' = IF history THEN consumed \o held ELSE consumed
    /\ UNCHANGED <<io, srcOpen, history, untilArgs, lineArgs, ctx, nEmitted, emitted>>

\* The script resolves the promise it passed as `expire`.
ScriptResolvesExpire(c) ==
    /\ microtasks = <<>>
    /\ calls[c].kind = "waitForTime"
    /\ ~calls[c].expired
    /\ Commit(resolveExpire(St, c))
    /\ UNCHANGED <<io, srcOpen, history, untilArgs, lineArgs, ctx, nEmitted, nCalls, emitted,
                   consumed>>

\* The script calls waitForEvent(tube, "data", limit, reject) with a promise
\* of its own as the limit.
CallWaitForEventUntil(reject) ==
    /\ CanCall
    /\ nCalls < MaxCalls
    /\ LET c == nCalls + 1
           rec == [NoCall EXCEPT !.kind = "waitForEventUntil"]
       IN  Commit(waitForEventUntil(Begin(c, rec), c, reject))
    /\ nCalls' = nCalls + 1
    /\ consumed' = IF history THEN consumed \o held ELSE consumed
    /\ UNCHANGED <<io, srcOpen, history, untilArgs, lineArgs, ctx, nEmitted, emitted>>

\* The script resolves the promise it passed as the limit.
ScriptResolvesLimit(c) ==
    /\ microtasks = <<>>
    /\ calls[c].kind = "waitForEventUntil"
    /\ ~calls[c].expired
    /\ Commit(Enqueue([St EXCEPT !.calls[c].expired = TRUE], "limit", c))
    /\ UNCHANGED <<io, srcOpen, history, untilArgs, lineArgs, ctx, nEmitted, nCalls, emitted,
                   consumed>>

\* The callback of limit.then runs.
LimitResume ==
    /\ HeadIs("limit")
    /\ Commit(limitThen(Popped, Head(microtasks).c))
    /\ UNCHANGED <<io, srcOpen, history, untilArgs, lineArgs, ctx, nEmitted, nCalls, emitted,
                   consumed>>

CallClose(ok) ==
    /\ CanCall
    /\ nCalls < MaxCalls
    /\ LET c == nCalls + 1
           rec == [NoCall EXCEPT !.kind = "close"]
       IN  /\ Commit(close(Begin(c, rec), c, ok))
           /\ io' = ioAfterClose(io, ~isDestroyable(io))
    /\ nCalls' = nCalls + 1
    /\ consumed' = IF history THEN consumed \o held ELSE consumed
    /\ UNCHANGED <<srcOpen, history, untilArgs, lineArgs, ctx, nEmitted, emitted>>

\* close() resumes after `await this.io.destroy()`.
CloseResume ==
    /\ HeadIs("close")
    /\ Commit(closeAfter(Popped, Head(microtasks).c))
    /\ io' = ioAfterClose(io, calls[Head(microtasks).c].destroyOk)
    /\ UNCHANGED <<srcOpen, history, untilArgs, lineArgs, ctx, nEmitted, nCalls, emitted,
                   consumed>>

\* The user only calls recv and unrecv.
NextRecv ==
    \/ Environment
    \/ RecvResume
    \/ \E bytes \in RecvSizes, timeout \in RecvTimeouts : CallRecv(bytes, timeout)
    \/ \E k \in 1..MaxEmit : CallUnrecv(k)

SpecRecv == InitRecv /\ [][NextRecv]_vars

\* The user calls recv and recvall.
NextRecvall ==
    \/ Environment
    \/ RecvResume
    \/ RecvallResume
    \/ \E bytes \in RecvSizes, timeout \in RecvTimeouts : CallRecv(bytes, timeout)
    \/ CallRecvall

SpecRecvall == InitRecv /\ [][NextRecvall]_vars

\* The user calls recv and close.
NextClose ==
    \/ Environment
    \/ RecvResume
    \/ CloseResume
    \/ \E bytes \in RecvSizes, timeout \in RecvTimeouts : CallRecv(bytes, timeout)
    \/ \E ok \in BOOLEAN : CallClose(ok)

SpecClose == InitRecv /\ [][NextClose]_vars

\* The user calls connected, recv and close.
NextConnected ==
    \/ Environment
    \/ RecvResume
    \/ CloseResume
    \/ \E bytes \in RecvSizes, timeout \in RecvTimeouts : CallRecv(bytes, timeout)
    \/ \E ok \in BOOLEAN : CallClose(ok)
    \/ \E direction \in Directions : CallConnected(direction)

SpecConnected == InitRecv /\ [][NextConnected]_vars

\* The script calls waitForEvent on the Tube's "data" event.
NextWait ==
    \/ Environment
    \/ RecvResume
    \/ \E timeout \in RecvTimeouts, reject \in BOOLEAN : CallWaitForEvent(timeout, reject)

SpecWait == InitRecv /\ [][NextWait]_vars

\* The script calls waitForTime and resolves the promises it passed.
NextTime ==
    \/ \E data \in Chunks : ChunkArrival(data)
    \/ SourceClose
    \/ Tick
    \/ \E c \in 1..MaxCalls : DeadlineTimerFire(c)
    \/ ExpireResume
    \/ DeadlineResume
    \/ \E c \in 1..MaxCalls : ScriptResolvesExpire(c)
    \/ \E time \in UntilTimeouts : CallWaitForTime(time)

SpecTime == InitRecv /\ [][NextTime]_vars

\* The script calls waitForEvent with promises as limits and resolves them.
NextWaitUntil ==
    \/ \E data \in Chunks : ChunkArrival(data)
    \/ SourceClose
    \/ RecvResume
    \/ LimitResume
    \/ \E c \in 1..MaxCalls : ScriptResolvesLimit(c)
    \/ \E reject \in BOOLEAN : CallWaitForEventUntil(reject)

SpecWaitUntil == InitRecv /\ [][NextWaitUntil]_vars

\* The user calls canRecv, recv and close.
NextCan ==
    \/ Environment
    \/ RecvResume
    \/ CloseResume
    \/ \E bytes \in RecvSizes, timeout \in RecvTimeouts : CallRecv(bytes, timeout)
    \/ \E ok \in BOOLEAN : CallClose(ok)
    \/ \E timeout \in CanRecvTimeouts : CallCanRecv(timeout)

SpecCan == InitRecv /\ [][NextCan]_vars

\* The user calls clean and recv.
NextClean ==
    \/ Environment
    \/ RecvResume
    \/ CleanResume
    \/ \E bytes \in RecvSizes, timeout \in RecvTimeouts : CallRecv(bytes, timeout)
    \/ \E timeout \in CleanTimeouts : CallClean(timeout)

SpecClean == InitRecv /\ [][NextClean]_vars

\* The user only calls recvline, with one set of arguments, on a Tube whose
\* TubeContext.bytes is larger than the whole stream.
InitLine ==
    /\ InitTube
    /\ history = FALSE
    /\ untilArgs = NoUntilArgs
    /\ lineArgs \in {a \in LineArgs : a.pred = "starts1"}
    /\ ctx = WholeStreamContext

UntilSteps ==
    \/ \E c \in 1..MaxCalls : DeadlineTimerFire(c)
    \/ RecvResume
    \/ LoopResume
    \/ ExpireResume
    \/ DeadlineResume

\* The script calls recvuntil under "return" with a deadline of two units,
\* on a Tube whose `bytes` is not smaller than the stream.
InitChunking ==
    /\ InitTube
    /\ history = TRUE
    /\ untilArgs \in [delims : DelimLists, timeout : {2}, handleIncomplete : {"return"}]
    /\ lineArgs = NoLineArgs
    /\ ctx = WholeStreamContext

NextChunking ==
    \/ Environment
    \/ UntilSteps
    \/ CallRecvuntil

SpecChunking == InitChunking /\ [][NextChunking]_vars

NextLine ==
    \/ Environment
    \/ UntilSteps
    \/ LineResume
    \/ CallRecvline

SpecLine == InitLine /\ [][NextLine]_vars

\* The user only calls recvlinePred, with one set of arguments, on a Tube
\* whose TubeContext.bytes is larger than the whole stream.
InitPred ==
    /\ InitTube
    /\ history = TRUE
    /\ untilArgs = NoUntilArgs
    /\ lineArgs \in {a \in LineArgs : a.lineEnding = TubeContext.lineEnding}
    /\ ctx = WholeStreamContext

NextPred ==
    \/ Environment
    \/ UntilSteps
    \/ LineResume
    \/ \E c \in 1..MaxCalls : PredTimerFire(c)
    \/ PredResume
    \/ PredExpireResume
    \/ PredDeadlineResume
    \/ CallRecvlinePred

SpecPred == InitPred /\ [][NextPred]_vars

\* The stream "foo\nbar": two bytes, the line ending, one byte.
FooBar == <<1, 1, 2, 1>>

\* The source emits FooBar in chunks of any length and then closes; the user
\* calls recvline with the defaults of TubeContext, whose `bytes` is not
\* smaller than the stream.
InitFooBar ==
    /\ InitTube
    /\ io.output
    /\ history = TRUE
    /\ untilArgs = NoUntilArgs
    /\ ctx = [TubeContext EXCEPT !.bytes = Len(FooBar)]
    /\ lineArgs = [keepends |-> ctx.keepEnds, timeout |-> ctx.longTimeout,
                   handleIncomplete |-> ctx.handleIncomplete,
                   lineEnding |-> ctx.lineEnding, pred |-> "starts1"]

\* The "data" event of the next bytes of the stream (constructor lines 153-162).
StreamChunk(data) ==
    /\ microtasks = <<>>
    /\ srcOpen
    /\ Len(emitted \o data) <= Len(FooBar)
    /\ emitted \o data = SubSeq(FooBar, 1, Len(emitted \o data))
    /\ Commit(emitData([St EXCEPT !.buf = Concat(@, data)]))
    /\ nEmitted' = nEmitted + Len(data)
    /\ emitted' = emitted \o data
    /\ UNCHANGED <<io, srcOpen, history, untilArgs, lineArgs, ctx, nCalls, consumed>>

\* The source closes once the whole stream was emitted.
StreamClose == emitted = FooBar /\ SourceClose

NextFooBar ==
    \/ \E n \in 1..Len(FooBar) : \E data \in SeqsOfLen(Byte, n) : StreamChunk(data)
    \/ StreamClose
    \/ Tick
    \/ \E c \in 1..MaxCalls : WaitTimerFire(c)
    \/ UntilSteps
    \/ LineResume
    \/ CallRecvline

SpecFooBar == InitFooBar /\ [][NextFooBar]_vars

\* ------------------------------------------------------------- properties
IsPrefix(p, s) == Len(p) <= Len(s) /\ SubSeq(s, 1, Len(p)) = p

\* C1: under sequential recv and unrecv calls interleaved with chunk arrivals,
\* the bytes the caller kept, then the result it still holds, then the buffer
\* are exactly the bytes the source emitted, in order: no byte is dropped,
\* duplicated or reordered.
C1_NoByteLostOrReordered == history => consumed \o held \o outBuffer = emitted

\* The caller kept bytes, then pushed part of its second result back in front
\* of bytes that were still buffered.
C1_Witness ==
    /\ history
    /\ consumed # <<>>
    /\ nCalls = 2
    /\ Len(held) < Len(calls[2].value)
    /\ Len(outBuffer) > Len(calls[2].value) - Len(held)

\* A step in which call c finds a delimiter and its promise resolves.
Matches(c) ==
    /\ calls[c].kind = "recvuntil"
    /\ calls[c].prom = "pending"
    /\ calls'[c].prom = "resolved"
    /\ calls'[c].graceful

\* C2: when recvuntil finds a delimiter, the returned front followed by the
\* buffer afterwards is, in order, every byte the call had accumulated, the
\* chunk its last recv took and whatever the buffer still held: the bytes
\* after the delimiter are all pushed back, nothing is dropped.
C2_MatchKeepsEveryByte ==
    [][\A c \in 1..MaxCalls :
            Matches(c) =>
                calls'[c].value \o outBuffer' = calls[c].ret \o calls[c].dat \o outBuffer]_vars

\* Offset of the i-th delimiter of call c in what the call accumulated.
OffsetIn(c, i) == IndexOf(calls[c].ret \o calls[c].dat, calls[c].delims[i])

\* The i-th delimiter occurs, no delimiter occurs at a smaller offset, and no
\* delimiter listed before it occurs at the same offset.
Earliest(c, i) ==
    /\ OffsetIn(c, i) # 0 - 1
    /\ \A j \in DOMAIN calls[c].delims :
            OffsetIn(c, j) # 0 - 1 =>
                \/ OffsetIn(c, i) < OffsetIn(c, j)
                \/ OffsetIn(c, i) = OffsetIn(c, j) /\ i <= j

\* C3: the result of recvuntil ends with the delimiter occurrence of smallest
\* offset in the accumulated data, wherever that delimiter stands in the
\* list; of two delimiters at the same offset the one listed first is taken;
\* what follows the cut is left in the buffer.
C3_EarliestDelimiterWins ==
    [][\A c \in 1..MaxCalls :
            Matches(c) =>
                \E i \in DOMAIN calls[c].delims :
                    LET acc == calls[c].ret \o calls[c].dat
                        cut == OffsetIn(c, i) + Len(calls[c].delims[i])
                    IN  /\ Earliest(c, i)
                        /\ calls'[c].value = SubSeq(acc, 1, cut)
                        /\ outBuffer' = SubSeq(acc, cut + 1, Len(acc))]_vars

\* The list names <<2>> before <<1>>, the data are 1 then 2: the result ends
\* at the 1 and the 2 is left for the next receive.
C3_Witness ==
    \E c \in 1..MaxCalls :
        /\ calls[c].graceful
        /\ calls[c].prom = "resolved"
        /\ calls[c].delims = << <<2>>, <<1>> >>
        /\ calls[c].taken = <<1, 2>>
        /\ calls[c].value = <<1>>
        /\ outBuffer = <<2>>

\* The call is a recvuntil under the given policy.
Until(c, policy) == calls[c].kind = "recvuntil" /\ calls[c].policy = policy

\* C4: once recvuntil under "throw" has rejected, the bytes it had accumulated
\* are at the head of the buffer and stay there until the caller's next call,
\* so that a subsequent recv returns exactly those bytes.
C4_ThrowKeepsBytes ==
    \A c \in 1..MaxCalls :
        Until(c, "throw") /\ calls[c].prom = "rejected" /\ nCalls = c =>
            IsPrefix(calls[c].pushed, outBuffer)

\* C5: when the deadline of a recvuntil under "buffer" has elapsed with no
\* delimiter found and the deadline's callback has run, the promise is
\* resolved with an empty result.
C5_BufferResolvesEmpty ==
    \A c \in 1..MaxCalls :
        Until(c, "buffer") /\ calls[c].elapsed /\ calls[c].timedOut =>
            calls[c].prom = "resolved" /\ calls[c].value = <<>>

\* C6: a recvuntil under "return" that is resolved by its deadline, no
\* delimiter found, resolves with every byte its recv steps took, in the order
\* they were taken, and the buffer is empty.
C6_ReturnGivesAccumulated ==
    [][\A c \in 1..MaxCalls :
            /\ Until(c, "return")
            /\ calls[c].prom = "pending"
            /\ calls'[c].prom = "resolved"
            /\ calls'[c].elapsed
            /\ ~calls'[c].graceful
            => /\ calls'[c].value = calls'[c].taken
               /\ outBuffer' = <<>>]_vars

\* Three bytes that arrived in at least two chunks were returned at the deadline.
C6_Witness ==
    \E c \in 1..MaxCalls :
        /\ Until(c, "return")
        /\ calls[c].prom = "resolved"
        /\ calls[c].elapsed
        /\ ~calls[c].graceful
        /\ calls[c].value = <<1, 2, 1>>
        /\ outBuffer = <<>>

\* What the timeout path gives under each policy.
SettledAsIncomplete(c) ==
    CASE calls[c].policy = "return" ->
            calls[c].prom = "resolved" /\ calls[c].value = calls[c].taken
      [] calls[c].policy = "throw" ->
            calls[c].prom = "rejected" /\ calls[c].pushed = calls[c].taken
      [] OTHER ->
            calls[c].prom = "resolved" /\ calls[c].value = <<>>
                /\ calls[c].pushed = calls[c].taken

\* C7: when the source closed before a delimiter was found and before the
\* deadline, the loop has ended and the call is settled as on the timeout
\* path, under each of the three policies.
C7_CloseSettles ==
    \A c \in 1..MaxCalls :
        calls[c].kind = "recvuntil" /\ calls[c].timedOut /\ ~calls[c].elapsed =>
            ~calls[c].shouldContinue /\ SettledAsIncomplete(c)

\* C8: the one timer armed at call start fires when `timeout` has elapsed
\* from the call, whatever chunks arrived, and once its callbacks have run a
\* call that found no delimiter is settled.
C8_SingleDeadlineSettles ==
    \A c \in 1..MaxCalls :
        calls[c].kind = "recvuntil" /\ calls[c].elapsed =>
            /\ calls[c].age = calls[c].timeout
            /\ microtasks = <<>> /\ ~calls[c].graceful => calls[c].prom # "pending"

\* C9: a recv that waited on an empty buffer and was woken by its timer
\* resolves with an empty result and leaves the buffer as it was; a recv that
\* waited is never rejected.
C9_RecvTimeoutGivesEmpty ==
    [][\A c \in 1..MaxCalls :
            calls'[c].kind = "recv" =>
                /\ (calls[c].wait = "timeout" /\ calls[c].prom = "pending"
                        /\ calls'[c].prom # "pending") =>
                        /\ calls'[c].prom = "resolved"
                        /\ calls'[c].value = <<>>
                        /\ outBuffer' = outBuffer
                /\ calls'[c].prom = "rejected" => calls'[c].wait = "none"]_vars

\* A recv of the caller was woken by its timer and has resolved.
C9_Witness ==
    \E c \in 1..MaxCalls :
        /\ calls[c].kind = "recv"
        /\ calls[c].wait = "timeout"
        /\ calls[c].prom = "resolved"
        /\ calls[c].value = <<>>

\* C10: recv and recvall called with no readable capability and an empty
\* buffer are rejected within the call with the state error: nothing is
\* waited for, no listener or timer is set up, the buffer is unchanged.
C10_NotConnectedRejectsAtOnce ==
    [][\A c \in 1..MaxCalls :
            /\ calls[c].kind = "none"
            /\ calls'[c].kind \in {"recv", "recvall"}
            /\ ~io.output
            /\ outBuffer = <<>>
            => /\ calls'[c].prom = "rejected"
               /\ calls'[c].err = "Cannot read from io object."
               /\ calls'[c].wait = "none"
               /\ ~calls'[c].waitTimer.armed
               /\ outBuffer' = outBuffer
               /\ dataListeners' = dataListeners
               /\ closeListeners' = closeListeners
               /\ microtasks' = microtasks]_vars

\* Both a recv and a recvall were rejected with the state error.
C10_Witness ==
    \E c, d \in 1..MaxCalls :
        /\ calls[c].kind = "recv"
        /\ calls[d].kind = "recvall"
        /\ calls[c].prom = "rejected" /\ calls[c].err = "Cannot read from io object."
        /\ calls[d].prom = "rejected" /\ calls[d].err = "Cannot read from io object."
        /\ outBuffer = <<>>

\* A step in which recvline returns the line its recvuntil found.
LineFound(c) ==
    /\ calls[c].kind = "recvline"
    /\ calls[c].prom = "pending"
    /\ calls[c].uprom = "resolved"
    /\ calls'[c].prom = "resolved"

\* C17: on success recvline without keepEndings returns the line without its
\* whole line ending, whatever the length of the ending, and with keepEndings
\* the line with its ending; the buffer keeps what followed the ending.
C17_LineEndingRemoved ==
    [][\A c \in 1..MaxCalls :
            LineFound(c) =>
                LET line == calls[c].uvalue
                    ending == calls[c].lineEnding
                IN  /\ SliceLast(line, Len(ending)) = ending
                    /\ calls'[c].value =
                            IF calls[c].keepends
                            THEN line
                            ELSE SubSeq(line, 1, Len(line) - Len(ending))
                    /\ outBuffer' = outBuffer]_vars

\* A step in which recvline settles after the deadline of its recvuntil
\* elapsed with no line ending found.
LineMissed(c) ==
    /\ calls[c].kind = "recvline"
    /\ calls[c].prom = "pending"
    /\ calls[c].uprom = "rejected"
    /\ calls[c].elapsed
    /\ calls'[c].prom # "pending"

\* C18: when the deadline elapses with no line ending found, recvline under
\* "throw" rejects with its own error and the buffer holds every byte the call
\* received; under "buffer" it resolves with an empty result and the buffer
\* holds every byte received; under "return" it resolves with every byte
\* received and the buffer is empty.
C18_LineIncomplete ==
    [][\A c \in 1..MaxCalls :
            LineMissed(c) =>
                CASE calls[c].linePolicy = "throw" ->
                        /\ calls'[c].prom = "rejected"
                        /\ calls'[c].err = "Could not find a newline."
                        /\ calls'[c].err # "Timeout before reaching deliminator."
                        /\ outBuffer' = calls[c].taken
                  [] calls[c].linePolicy = "buffer" ->
                        /\ calls'[c].prom = "resolved"
                        /\ calls'[c].value = <<>>
                        /\ outBuffer' = calls[c].taken
                  [] OTHER ->
                        /\ calls'[c].prom = "resolved"
                        /\ calls'[c].value = calls[c].taken
                        /\ outBuffer' = <<>>]_vars

\* A recvline under "throw" was rejected at its deadline with two bytes
\* received, which are in the buffer.
C18_Witness ==
    \E c \in 1..MaxCalls :
        /\ calls[c].kind = "recvline"
        /\ calls[c].linePolicy = "throw"
        /\ calls[c].elapsed
        /\ calls[c].prom = "rejected"
        /\ calls[c].err = "Could not find a newline."
        /\ Len(calls[c].taken) = 2
        /\ outBuffer = calls[c].taken

\* The call is a recvline that has settled, and the timer of its deadline did
\* not fire: the source was not slower than the timeout.
InTime(c) ==
    /\ calls[c].kind = "recvline"
    /\ calls[c].prom # "pending"
    /\ ~calls[c].elapsed

\* C19: on the stream "foo\nbar" followed by the close, however chunked and
\* whether the close comes before or after the first call, the first recvline
\* with the default arguments returns "foo" and the next one returns "bar".
C19_FooThenBar ==
    /\ InTime(1) => calls[1].prom = "resolved" /\ calls[1].value = <<1, 1>>
    /\ InTime(1) /\ InTime(2) =>
            calls[2].prom = "resolved" /\ calls[2].value = <<1>> /\ ~srcOpen

\* Both calls have returned, the second after the source closed.
C19_Witness ==
    /\ InTime(1) /\ InTime(2) /\ ~srcOpen
    /\ calls[1].value = <<1, 1>>
    /\ calls[2].value = <<1>>
    /\ outBuffer = <<>>

\* The complete lines of a stream, each with its line ending.
RECURSIVE LinesOf(_, _)
LinesOf(stream, ending) ==
    IF IndexOf(stream, ending) < 0
    THEN <<>>
    ELSE LET n == IndexOf(stream, ending) + Len(ending)
         IN  <<SubSeq(stream, 1, n)>> \o LinesOf(SubSeq(stream, n + 1, Len(stream)), ending)

\* A line as recvline returns it.
Shown(line, ending, keepends) ==
    IF keepends THEN line ELSE SubSeq(line, 1, Len(line) - Len(ending))

\* The number of the first line the predicate accepts, 0 when there is none.
FirstMatch(lines, ending, keepends, p) ==
    IF \E i \in 1..Len(lines) : pred(p, Shown(lines[i], ending, keepends))
    THEN CHOOSE i \in 1..Len(lines) :
            /\ pred(p, Shown(lines[i], ending, keepends))
            /\ \A j \in 1..(i - 1) : ~pred(p, Shown(lines[j], ending, keepends))
    ELSE 0

RECURSIVE Flat(_)
Flat(lines) == IF lines = <<>> THEN <<>> ELSE Head(lines) \o Flat(Tail(lines))

\* A step in which the first call, a recvlinePred, settles before the timer of
\* its deadline fired.
PredSettles ==
    /\ calls[1].kind = "recvlinePred"
    /\ calls[1].prom = "pending"
    /\ calls'[1].prom # "pending"
    /\ ~calls'[1].pelapsed

\* C20: when the stream holds a line the predicate accepts, recvlinePred
\* resolves with the first such line in stream order; the lines before it were
\* each passed to the predicate once, in order, and the bytes after the
\* matching line stay in the buffer.
C20_FirstAcceptedLine ==
    [][PredSettles =>
            LET ending == calls[1].lineEnding
                keepends == calls[1].keepends
                lines == LinesOf(emitted, ending)
                m == FirstMatch(lines, ending, keepends, calls[1].pred)
            IN  m # 0 =>
                    /\ calls'[1].prom = "resolved"
                    /\ calls'[1].value = Shown(lines[m], ending, keepends)
                    /\ calls'[1].seen =
                            [i \in 1..m |-> Shown(lines[i], ending, keepends)]
                    /\ outBuffer' =
                            SubSeq(emitted, Len(Flat(SubSeq(lines, 1, m))) + 1,
                                   Len(emitted))]_vars

\* C20 for the calls that keep the line endings.
C20_KeepingEnds ==
    [][PredSettles /\ calls[1].keepends =>
            LET ending == calls[1].lineEnding
                lines == LinesOf(emitted, ending)
                m == FirstMatch(lines, ending, TRUE, calls[1].pred)
            IN  m # 0 =>
                    /\ calls'[1].prom = "resolved"
                    /\ calls'[1].value = lines[m]
                    /\ calls'[1].seen = SubSeq(lines, 1, m)
                    /\ outBuffer' =
                            SubSeq(emitted, Len(Flat(SubSeq(lines, 1, m))) + 1,
                                   Len(emitted))]_vars

\* Nothing is left to run for the call: no continuation is queued for it, no
\* timer of it is armed and it waits for no event.
Idle(c) ==
    /\ \A i \in 1..Len(microtasks) : microtasks[i].c # c
    /\ ~calls[c].waitTimer.armed
    /\ ~calls[c].dlTimer.armed
    /\ ~calls[c].pTimer.armed
    /\ calls[c].wait # "waiting"

\* C11: on a Tube whose input is not connected (an Endpoint with no readable
\* capability, nothing buffered) a recvuntil, recvline or recvlinePred call
\* never resolves, and once nothing is left to run for it, it has rejected.
C11_NotConnectedRejects ==
    ~isReadable(io) /\ nEmitted = 0 =>
        \A c \in 1..MaxCalls :
            RunsUntil(calls[c]) =>
                /\ calls[c].prom # "resolved"
                /\ Idle(c) => calls[c].prom = "rejected"

\* C15: a recvall called while the source is open stays pending, with no
\* timer armed, as long as the source is open; it settles only after the close
\* signal, resolving with the whole buffer, which with what earlier calls
\* returned is every byte the source emitted, in order, and the buffer is left
\* empty.
C15_RecvallWaitsForClose ==
    [][\A c \in 1..MaxCalls :
            /\ (calls[c].kind = "none" /\ calls'[c].kind = "recvall" /\ srcOpen
                    => /\ calls'[c].prom = "pending"
                       /\ calls'[c].wait = "waiting"
                       /\ ~calls'[c].waitTimer.armed)
            /\ (calls'[c].kind = "recvall" /\ calls'[c].prom = "pending" /\ srcOpen'
                    => ~calls'[c].waitTimer.armed)
            /\ (calls[c].kind = "recvall" /\ calls[c].prom = "pending"
                    /\ calls'[c].prom # "pending"
                    => /\ ~srcOpen
                       /\ calls'[c].prom = "resolved"
                       /\ calls'[c].value = outBuffer
                       /\ consumed \o calls'[c].value = emitted
                       /\ outBuffer' = <<>>)]_vars

\* The source emitted two bytes in two chunks and closed; the recvall that
\* waited for it has resolved with both.
C15_Witness ==
    \E c \in 1..MaxCalls :
        /\ calls[c].kind = "recvall"
        /\ calls[c].wait = "event"
        /\ calls[c].prom = "resolved"
        /\ calls[c].value = <<1, 2>>
        /\ emitted = <<1, 2>>
        /\ consumed = <<>>
        /\ outBuffer = <<>>
        /\ ~srcOpen

\* C16: a recvall called after an earlier recvall has returned everything of
\* a source that has closed resolves within the call with empty data.
C16_SecondRecvallEmpty ==
    [][\A c \in 1..MaxCalls :
            /\ calls[c].kind = "none"
            /\ calls'[c].kind = "recvall"
            /\ ~srcOpen
            /\ outBuffer = <<>>
            /\ \E d \in 1..MaxCalls :
                    calls[d].kind = "recvall" /\ calls[d].prom = "resolved"
            => /\ calls'[c].prom = "resolved"
               /\ calls'[c].value = <<>>]_vars

\* A close() call has returned or thrown.
Closed == \E d \in 1..MaxCalls : calls[d].kind = "close" /\ calls[d].prom # "pending"

\* C12: once a close() has returned or thrown, connected("any") is false in
\* every state, and every recv called from then on is rejected with the state
\* error.
C12_ClosedIsDisconnected ==
    [][/\ Closed' => ~connected("any", io', outBuffer')
       /\ \A c \in 1..MaxCalls :
                Closed /\ calls[c].kind = "none" /\ calls'[c].kind = "recv"
                => /\ calls'[c].prom = "rejected"
                   /\ calls'[c].err = "Cannot read from io object."]_vars

\* C13: when the Endpoint's destroy fails, close() rejects and the Tube's
\* Endpoint is the destroyed sentinel from then on.
C13_FailedDestroyStillDestroys ==
    [][\A c \in 1..MaxCalls :
            /\ calls[c].kind = "close"
            /\ calls[c].prom = "pending"
            /\ calls'[c].prom # "pending"
            /\ ~calls[c].destroyOk
            => /\ calls'[c].prom = "rejected"
               /\ io' = IODestroyed]_vars

\* C14: a close() called after an earlier close() has returned or thrown is
\* rejected within the call and does not invoke the Endpoint's destroy.
C14_SecondCloseFails ==
    [][\A c \in 1..MaxCalls :
            Closed /\ calls[c].kind = "none" /\ calls'[c].kind = "close"
            => /\ calls'[c].prom = "rejected"
               /\ ~calls'[c].invoked]_vars

\* The first call is a recvlinePred that has ended without a matching line,
\* nothing is left to run for it and no other call was made.
PredEndedUnmatched ==
    /\ nCalls = 1
    /\ calls[1].kind = "recvlinePred"
    /\ calls[1].prom # "pending"
    /\ ~calls[1].pgraceful
    /\ Idle(1)

\* C21: after a recvlinePred has ended without a matching line under "buffer"
\* or "throw", the buffer holds, in the order of arrival, every byte the source
\* delivered: the discarded lines are back with their line endings.
C21_ScrappedPushedBack ==
    PredEndedUnmatched /\ calls[1].predPolicy \in {"buffer", "throw"}
        => outBuffer = emitted

\* C22: a recvlinePred under "return" that ends without a matching line
\* resolves with the lines it read, each once and in order; and once nothing
\* is left to run for the call, it has settled, also when it read no line.
C22_ReturnGivesScrapped ==
    [][\A c \in 1..MaxCalls :
            calls'[c].kind = "recvlinePred" /\ calls'[c].predPolicy = "return"
            => /\ Idle(c)' => calls'[c].prom # "pending"
               /\ (calls[c].prom = "pending" /\ calls'[c].prom # "pending"
                        /\ ~calls'[c].pgraceful)
                    => /\ calls'[c].prom = "resolved"
                       /\ calls'[c].value = Flat(calls'[c].seen)]_vars

\* The callback of the call's deadline is still to come: its timer is armed
\* or its continuation is queued.
DeadlineAhead(c) ==
    \/ calls[c].pTimer.armed
    \/ \E i \in 1..Len(microtasks) :
            microtasks[i].c = c /\ microtasks[i].k \in {"pexpire", "pdeadline"}

\* C23: a pending recvlinePred always has its one deadline ahead of it, which
\* is armed at the call with `timeout` and never armed again; and once the
\* source has closed, nothing is buffered and nothing is left to run, the call
\* has settled.
C23_SettlesByDeadline ==
    [][\A c \in 1..MaxCalls :
            calls'[c].kind = "recvlinePred"
            => /\ calls'[c].prom = "pending" => DeadlineAhead(c)'
               /\ calls'[c].pTimer.armed =>
                    IF calls[c].kind = "recvlinePred"
                    THEN calls[c].pTimer.armed /\ calls'[c].pTimer.left <= calls[c].pTimer.left
                    ELSE calls'[c].pTimer = Armed(DelayOf(calls'[c].timeout))
               /\ ~srcOpen' /\ outBuffer' = <<>> /\ Idle(c)'
                    => calls'[c].prom # "pending"]_vars

\* C23 for the calls under "throw" and "buffer".
C23_UnderThrowOrBuffer ==
    [][\A c \in 1..MaxCalls :
            calls'[c].kind = "recvlinePred" /\ calls'[c].predPolicy # "return"
            => /\ calls'[c].prom = "pending" => DeadlineAhead(c)'
               /\ calls'[c].pTimer.armed =>
                    IF calls[c].kind = "recvlinePred"
                    THEN calls[c].pTimer.armed /\ calls'[c].pTimer.left <= calls[c].pTimer.left
                    ELSE calls'[c].pTimer = Armed(DelayOf(calls'[c].timeout))
               /\ ~srcOpen' /\ outBuffer' = <<>> /\ Idle(c)'
                    => calls'[c].prom # "pending"]_vars

\* The call has a continuation queued.
Queued(c) == \E i \in 1..Len(microtasks) : microtasks[i].c = c

\* C24: canRecv called with a non-empty buffer resolves with true within the
\* call; called with an empty buffer it waits with a timer of `timeout` (0 if
\* negative) and resolves with whether the buffer is non-empty when it wakes;
\* it never rejects and no step of it changes the buffer.
C24_CanRecv ==
    [][\A c \in 1..MaxCalls :
            calls'[c].kind = "canRecv"
            => /\ calls'[c].prom # "rejected"
               /\ calls'[c].prom = "pending" => calls'[c].waitTimer.armed \/ Queued(c)'
               /\ calls[c].kind = "none" /\ outBuffer # <<>>
                    => /\ calls'[c].prom = "resolved"
                       /\ calls'[c].can
                       /\ calls'[c].wait = "none"
                       /\ ~calls'[c].waitTimer.armed
                       /\ outBuffer' = outBuffer
               /\ calls[c].kind = "none" /\ outBuffer = <<>>
                    => /\ calls'[c].prom = "pending"
                       /\ calls'[c].wait = "waiting"
                       /\ calls'[c].waitTimer =
                            Armed(IF calls'[c].timeout > 0 THEN calls'[c].timeout ELSE 0)
                       /\ outBuffer' = outBuffer
               /\ calls[c].prom = "pending" /\ calls'[c].prom # "pending"
                        /\ calls[c].kind = "canRecv"
                    => /\ calls'[c].can = (outBuffer # <<>>)
                       /\ outBuffer' = outBuffer]_vars

\* A canRecv woke at its timeout and answered false; the next one woke on a
\* chunk and answered true, and the chunk is in the buffer.
C24_Witness ==
    /\ calls[1].kind = "canRecv" /\ calls[1].wait = "timeout"
    /\ calls[1].prom = "resolved" /\ ~calls[1].can
    /\ calls[2].kind = "canRecv" /\ calls[2].wait = "event"
    /\ calls[2].prom = "resolved" /\ calls[2].can
    /\ outBuffer # <<>>
    /\ outBuffer = emitted

\* C25: clean called with a timeout <= 0 resolves within the call with the
\* whole buffer and leaves the buffer empty; it queues nothing, arms no timer
\* and registers no listener, so nothing runs between the read and the clear.
C25_CleanNowIsOneStep ==
    [][\A c \in 1..MaxCalls :
            calls[c].kind = "none" /\ calls'[c].kind = "clean" /\ calls'[c].timeout <= 0
            => /\ calls'[c].prom = "resolved"
               /\ calls'[c].value = outBuffer
               /\ outBuffer' = <<>>
               /\ calls'[c].wait = "none"
               /\ ~calls'[c].waitTimer.armed
               /\ microtasks' = microtasks
               /\ dataListeners' = dataListeners
               /\ closeListeners' = closeListeners]_vars

\* A clean(0) has returned the two bytes that were buffered.
C25_Witness ==
    \E c \in 1..MaxCalls :
        /\ calls[c].kind = "clean"
        /\ calls[c].timeout = 0
        /\ calls[c].prom = "resolved"
        /\ Len(calls[c].value) = 2
        /\ calls[c].value = emitted
        /\ outBuffer = <<>>

\* C26: clean called with a timeout > 0 never rejects; while it is pending a
\* recv of it is waiting with a timer of at most `timeout` or a continuation of
\* it is queued, and once the source has closed and nothing is queued it has
\* settled; it resolves with the bytes its recv calls took, in order, which
\* with what earlier calls returned is everything the source emitted, and the
\* buffer is then empty.
C26_CleanLoops ==
    [][\A c \in 1..MaxCalls :
            calls'[c].kind = "clean" /\ calls'[c].timeout > 0
            => /\ calls'[c].prom # "rejected"
               /\ calls'[c].prom = "pending"
                    => \/ Queued(c)'
                       \/ /\ calls'[c].waitTimer.armed
                          /\ calls'[c].waitTimer.left <= calls'[c].timeout
               /\ ~srcOpen' /\ ~Queued(c)' => calls'[c].prom = "resolved"
               /\ calls[c].prom = "pending" /\ calls'[c].prom = "resolved"
                    => /\ calls'[c].value = calls'[c].taken
                       /\ consumed' \o calls'[c].value = emitted'
                       /\ outBuffer' = <<>>]_vars

\* A clean(1) took three bytes with two recv calls, then its third recv woke
\* at its timeout with nothing, while the source was still open.
C26_Witness ==
    \E c \in 1..MaxCalls :
        /\ calls[c].kind = "clean"
        /\ calls[c].timeout = 1
        /\ calls[c].prom = "resolved"
        /\ calls[c].wait = "timeout"
        /\ Len(calls[c].value) = 3
        /\ calls[c].value = emitted
        /\ srcOpen

\* A clean(1) resolved, with what it had taken, when the source closed during
\* its loop.
C26_ClosedDuringLoop ==
    \E c \in 1..MaxCalls :
        /\ calls[c].kind = "clean"
        /\ calls[c].timeout = 1
        /\ calls[c].prom = "resolved"
        /\ calls[c].wait = "event"
        /\ calls[c].value # <<>>
        /\ calls[c].dat = <<>>
        /\ ~srcOpen

\* The step is one in which the recv proceeds: it is called with a non-empty
\* buffer, or it settles after having waited.
RecvProceeds(c) ==
    /\ calls'[c].kind = "recv"
    /\ calls[c].prom = "pending"
    /\ calls'[c].prom # "pending"
    /\ calls[c].kind = "none" => outBuffer # <<>>

\* C27: a recv that proceeds resolves with the first min(bytes, buffer length)
\* bytes of the buffer and leaves the rest of the buffer; called with a
\* non-empty buffer it does so within the call, without waiting.
C27_RecvTakesPrefix ==
    [][\A c \in 1..MaxCalls :
            RecvProceeds(c) =>
                LET n == IF calls'[c].bytes < Len(outBuffer)
                         THEN calls'[c].bytes ELSE Len(outBuffer)
                IN  /\ calls'[c].prom = "resolved"
                    /\ calls'[c].value = SubSeq(outBuffer, 1, n)
                    /\ outBuffer' = SubSeq(outBuffer, n + 1, Len(outBuffer))
                    /\ calls[c].kind = "none"
                        => calls'[c].wait = "none" /\ ~calls'[c].waitTimer.armed]_vars

\* A recv(1) returned the first byte of a two-byte buffer and left the second;
\* the recv(1) before it had waited for the chunk.
C27_Witness ==
    /\ calls[1].kind = "recv" /\ calls[1].wait = "event" /\ calls[1].bytes = 1
    /\ calls[2].kind = "recv" /\ calls[2].wait = "none" /\ calls[2].bytes = 1
    /\ calls[1].prom = "resolved" /\ calls[2].prom = "resolved"
    /\ emitted = calls[1].value \o calls[2].value \o outBuffer
    /\ Len(calls[1].value) = 1
    /\ Len(calls[2].value) = 1
    /\ Len(outBuffer) = 1

\* C28: connected answers "in", "read" and "recv" with: the Endpoint is
\* readable or the buffer is non-empty; "out", "send" and "write" with: the
\* Endpoint is writable; "any" and "either" with the OR and "both" with the
\* AND of the two; any other token raises "Invalid direction"; and the call
\* changes nothing of the Tube.
C28_ConnectedTable ==
    [][\A c \in 1..MaxCalls :
            calls[c].kind = "none" /\ calls'[c].kind = "connected"
            => LET d == calls'[c].direction
                   in == io.output \/ outBuffer # <<>>
                   out == io.input
               IN  /\ d \in {"in", "read", "recv"}
                        => calls'[c].prom = "resolved" /\ calls'[c].can = in
                   /\ d \in {"out", "send", "write"}
                        => calls'[c].prom = "resolved" /\ calls'[c].can = out
                   /\ d \in {"any", "either"}
                        => calls'[c].prom = "resolved" /\ calls'[c].can = (in \/ out)
                   /\ d = "both"
                        => calls'[c].prom = "resolved" /\ calls'[c].can = (in /\ out)
                   /\ d \notin {"in", "read", "recv", "out", "send", "write", "any",
                                 "either", "both"}
                        => calls'[c].prom = "rejected" /\ calls'[c].err = "Invalid direction"
                   /\ UNCHANGED <<io, srcOpen, outBuffer, dataListeners, closeListeners,
                                   microtasks, held>>]_vars

\* On a destroyed Tube with bytes left in the buffer, "any" was answered with
\* true.
C28_Witness ==
    /\ io = IODestroyed
    /\ outBuffer # <<>>
    /\ \E c \in 1..MaxCalls :
            calls[c].kind = "connected" /\ calls[c].direction = "any" /\ calls[c].can

\* C29: a waitForEvent whose event fired before its limit resolves with the
\* event's arguments under both policies; one whose limit was reached first
\* resolves with null, or rejects under the reject policy; so it rejects only
\* when the limit was reached first.
C29_EventResolves ==
    [][\A c \in 1..MaxCalls :
            /\ calls[c].kind = "waitForEvent"
            /\ calls[c].prom = "pending"
            /\ calls'[c].prom # "pending"
            => /\ calls[c].wait = "event"
                    => calls'[c].prom = "resolved" /\ calls'[c].got = "arguments"
               /\ calls[c].wait = "timeout" /\ ~calls[c].waitReject
                    => calls'[c].prom = "resolved" /\ calls'[c].got = "null"
               /\ calls[c].wait = "timeout" /\ calls[c].waitReject
                    => calls'[c].prom = "rejected"]_vars

\* C29 for the waits under the resolve policy.
C29_UnderResolvePolicy ==
    [][\A c \in 1..MaxCalls :
            /\ calls[c].kind = "waitForEvent"
            /\ ~calls[c].waitReject
            /\ calls[c].prom = "pending"
            /\ calls'[c].prom # "pending"
            => /\ calls[c].wait = "event"
                    => calls'[c].prom = "resolved" /\ calls'[c].got = "arguments"
               /\ calls[c].wait = "timeout"
                    => calls'[c].prom = "resolved" /\ calls'[c].got = "null"]_vars

\* C30: a waitForTime is settled once, by the first of its timer and of the
\* callback of `expire`: by the timer with true, by `expire` with false, and
\* then the timer is cleared; what the script sees is that boolean, and
\* neither the boolean nor the script's promise changes afterwards.
C30_TrueIffTimerFirst ==
    [][\A c \in 1..MaxCalls :
            calls'[c].kind = "waitForTime"
            => /\ ~calls[c].timed /\ calls'[c].timed /\ microtasks = <<>>
                    => /\ calls[c].dlTimer.armed /\ calls[c].dlTimer.left = 0
                       /\ calls'[c].elapsed
               /\ ~calls[c].timed /\ calls'[c].timed /\ microtasks # <<>>
                    => /\ Head(microtasks) = [k |-> "expire", c |-> c]
                       /\ ~calls'[c].elapsed
                       /\ ~calls'[c].dlTimer.armed
               /\ calls[c].timed
                    => /\ calls'[c].timed
                       /\ calls'[c].elapsed = calls[c].elapsed
                       /\ ~calls[c].elapsed => ~calls'[c].dlTimer.armed
               /\ calls[c].prom = "pending" /\ calls'[c].prom # "pending"
                    => /\ calls[c].timed
                       /\ calls'[c].prom = "resolved"
                       /\ calls'[c].can = calls[c].elapsed
               /\ calls[c].prom # "pending"
                    => calls'[c].prom = calls[c].prom /\ calls'[c].can = calls[c].can]_vars

\* The first waitForTime was preempted and resolved with false; the second
\* resolved with true when its timer fired, and the promise passed to it was
\* resolved afterwards.
C30_Witness ==
    /\ calls[1].kind = "waitForTime" /\ calls[1].prom = "resolved" /\ ~calls[1].can
    /\ calls[1].expired
    /\ calls[2].kind = "waitForTime" /\ calls[2].prom = "resolved" /\ calls[2].can
    /\ calls[2].expired
    /\ microtasks = <<>>

\* The step emits the Tube's "data" event: a chunk arrives or the source
\* closes.
DataEvent == nEmitted' # nEmitted \/ srcOpen' # srcOpen

\* Which of event and deadline settles a wait, and that it does so once: an
\* event while the wait is open wins, also when the timer is already due; the
\* timer wins only when it is due and its callback runs; afterwards neither
\* changes the winner or what the script's promise settled with.
RaceOnce(c) ==
    /\ calls[c].wait = "waiting" /\ DataEvent => calls'[c].wait = "event"
    /\ calls[c].wait = "waiting" /\ calls'[c].wait = "timeout"
            => calls[c].waitTimer.armed /\ calls[c].waitTimer.left = 0 /\ ~DataEvent
    /\ calls[c].wait \in {"event", "timeout"} => calls'[c].wait = calls[c].wait
    /\ calls[c].prom # "pending"
            => /\ calls'[c].prom = calls[c].prom
               /\ calls'[c].got = calls[c].got
               /\ calls'[c].err = calls[c].err

\* C31: a waitForEvent settles once, with the outcome of the first of event
\* and deadline: the event's arguments when the event came first, null or, under
\* the reject policy, the timeout error when the deadline came first.
C31_FirstWins ==
    [][\A c \in 1..MaxCalls :
            calls[c].kind = "waitForEvent"
            => /\ RaceOnce(c)
               /\ calls[c].prom = "pending" /\ calls'[c].prom # "pending"
                    => CASE calls[c].wait = "event" ->
                                calls'[c].prom = "resolved" /\ calls'[c].got = "arguments"
                         [] calls[c].wait = "timeout" /\ calls[c].waitReject ->
                                calls'[c].prom = "rejected"
                         [] calls[c].wait = "timeout" /\ ~calls[c].waitReject ->
                                calls'[c].prom = "resolved" /\ calls'[c].got = "null"
                         [] OTHER -> FALSE]_vars

\* C31 without the outcome of an event under the reject policy.
C31_RaceOnly ==
    [][\A c \in 1..MaxCalls :
            calls[c].kind = "waitForEvent"
            => /\ RaceOnce(c)
               /\ calls[c].prom = "pending" /\ calls'[c].prom # "pending"
                        /\ ~calls[c].waitReject
                    => CASE calls[c].wait = "event" -> calls'[c].got = "arguments"
                         [] calls[c].wait = "timeout" -> calls'[c].got = "null"
                         [] OTHER -> FALSE]_vars

\* C32: a recv whose wait was won by the event has no timer armed, and once
\* no wait is open any more the Tube has no "data" listener left: the listener
\* of a wait that its timer won has been detached.
C32_LoserTornDown ==
    /\ \A c \in 1..MaxCalls :
            calls[c].kind = "recv" /\ calls[c].wait = "event" => ~calls[c].waitTimer.armed
    /\ (\A c \in 1..MaxCalls : calls[c].wait # "waiting") => dataListeners = <<>>

\* C32 for the waits the event won.
C32_TimerCleared ==
    \A c \in 1..MaxCalls :
        calls[c].kind = "recv" /\ calls[c].wait = "event" => ~calls[c].waitTimer.armed

\* The wait's listener is on the Tube.
Listening(c) == \E i \in 1..Len(dataListeners) : dataListeners[i] = c

\* C33: once the callback of a waitForEvent's limit promise has run, the
\* wait's listener is not on the emitter; when the limit came before the
\* event, that callback both detaches the listener and settles the wait, and a
\* "data" event fired afterwards changes nothing of the wait.
C33_LimitDetachesListener ==
    [][\A c \in 1..MaxCalls :
            calls'[c].kind = "waitForEventUntil"
            => /\ calls'[c].timed => ~Listening(c)'
               /\ ~calls[c].timed /\ calls'[c].timed /\ calls[c].wait = "waiting"
                    => Listening(c) /\ calls'[c].wait # "waiting"
               /\ calls[c].timed /\ DataEvent => calls'[c] = calls[c]
               /\ calls[c].prom # "pending" => calls'[c].prom = calls[c].prom]_vars

\* The limit of a wait resolved before any event and settled it; a chunk
\* arrived afterwards.
C33_Witness ==
    \E c \in 1..MaxCalls :
        /\ calls[c].kind = "waitForEventUntil"
        /\ calls[c].timed
        /\ calls[c].prom = "resolved"
        /\ emitted # <<>>
        /\ outBuffer = emitted
        /\ nCalls = c

\* C34: the step in which the source closes retires io.output, leaves the
\* buffer as it is and runs every "data" listener once, so that every wait
\* open at that moment ends and its call is queued to resume; no "data" event
\* follows the close; a recv with a negative timeout that resumes from the
\* close's notification on an empty buffer resolves with no bytes; and a recv
\* called after the close with an empty buffer is rejected at once with
\* "Cannot read from io object.".
C34_CloseWakesWaiters ==
    [][/\ srcOpen /\ ~srcOpen'
            => /\ ~io'.output
               /\ outBuffer' = outBuffer
               /\ dataListeners' = <<>>
               /\ \A c \in 1..MaxCalls :
                      calls[c].wait = "waiting"
                      => calls'[c].wait = "event" /\ Queued(c)' /\ ~calls'[c].waitTimer.armed
       /\ ~srcOpen => ~DataEvent
       /\ \A c \in 1..MaxCalls :
              /\ calls[c].kind = "recv" /\ calls[c].timeout < 0 /\ calls[c].wait = "event"
                 /\ calls[c].prom = "pending" /\ HeadIs("recv") /\ Head(microtasks).c = c
                 /\ ~srcOpen /\ outBuffer = <<>>
                    => calls'[c].prom = "resolved" /\ calls'[c].value = <<>>
              /\ nCalls' = c /\ nCalls # c /\ calls'[c].kind = "recv"
                 /\ ~srcOpen /\ outBuffer = <<>>
                    => /\ calls'[c].prom = "rejected"
                       /\ calls'[c].err = "Cannot read from io object."
                       /\ calls'[c].wait = "none"
                       /\ outBuffer' = <<>>]_vars

\* A recv with a negative timeout waited on an empty buffer, the source
\* closed without having sent anything, the recv resolved with no bytes, and
\* the recv called next was rejected.
C34_Witness ==
    /\ ~srcOpen
    /\ emitted = <<>>
    /\ calls[1].kind = "recv" /\ calls[1].timeout < 0 /\ calls[1].wait = "event"
    /\ calls[1].prom = "resolved" /\ calls[1].value = <<>>
    /\ calls[2].kind = "recv" /\ calls[2].prom = "rejected"

\* C35: once the deadline of a recvuntil has settled the call, no continuation
\* of that call changes the buffer.
C35_SettledCallIsInert ==
    [][\A c \in 1..MaxCalls :
            /\ calls[c].kind = "recvuntil"
            /\ calls[c].timedOut
            /\ calls[c].prom # "pending"
            /\ microtasks # <<>>
            /\ Head(microtasks).c = c
            => outBuffer' = outBuffer]_vars

\* A close() has completed: it returned.
CloseCompleted == \E d \in 1..MaxCalls : calls[d].kind = "close" /\ calls[d].prom = "resolved"

\* C36: after a close() has completed, a chunk or the close of the former
\* source changes neither the buffer nor what connected answers for input
\* and output, and an input that is not connected stays not connected.
C36_ClosedTubeIgnoresSource ==
    [][CloseCompleted
            => /\ DataEvent
                    => /\ outBuffer' = outBuffer
                       /\ connected("in", io', outBuffer') = connected("in", io, outBuffer)
                       /\ connected("out", io', outBuffer') = connected("out", io, outBuffer)
               /\ ~connected("in", io, outBuffer) => ~connected("in", io', outBuffer')]_vars

\* C37: a recvall called after the source has closed, with unread bytes in
\* the buffer, resolves within the call with those bytes and leaves the
\* buffer empty.
C37_RecvallAfterClose ==
    [][\A c \in 1..MaxCalls :
            /\ nCalls' = c /\ nCalls # c
            /\ calls'[c].kind = "recvall"
            /\ ~srcOpen
            /\ outBuffer # <<>>
            => /\ calls'[c].prom = "resolved"
               /\ calls'[c].value = outBuffer
               /\ outBuffer' = <<>>]_vars

\* C38: the deadline of a recvuntil called with a negative timeout never
\* elapses: its deadline callback never runs the timeout path.
C38_NegativeMeansUnbounded ==
    \A c \in 1..MaxCalls :
        calls[c].kind = "recvuntil" /\ calls[c].timeout < 0
            => ~calls[c].elapsed /\ ~calls[c].timedOut

\* What recvuntil returns for the stream S arriving as one chunk: S up to the
\* end of the delimiter that occurs at the lowest offset, the first of the
\* list among those at that offset.
OneChunk(delims, S) ==
    LET hit(k) == \E i \in 0..Len(S) : OccursAt(S, delims[k], i)
        at(k) == CHOOSE i \in 0..Len(S) :
                    OccursAt(S, delims[k], i) /\ \A j \in 0..(i - 1) : ~OccursAt(S, delims[k], j)
        best == CHOOSE k \in DOMAIN delims :
                    /\ hit(k)
                    /\ \A m \in DOMAIN delims :
                          hit(m) => at(k) < at(m) \/ (at(k) = at(m) /\ k <= m)
    IN  SubSeq(S, 1, at(best) + Len(delims[best]))

\* The first call is a recvuntil that found a delimiter before its deadline
\* and resolved.
FoundDelimiter ==
    /\ calls[1].kind = "recvuntil"
    /\ calls[1].graceful
    /\ ~calls[1].timedOut
    /\ calls[1].prom = "resolved"

SameLengths(delims) == \A i, j \in DOMAIN delims : Len(delims[i]) = Len(delims[j])

Present == ElementsOf(adapter.streams)

\* C40: while a stream of the process has signalled neither "end" nor
\* "close", outStream is open and the Tube's source has not closed; once every
\* stream has emitted "end", outStream is ended or destroyed.
C40_MergedOpenUntilAllEnded ==
    adapter.impl # "none"
        => /\ (\E st \in Present : Flowing(st)) => adapter.outStream = "open" /\ srcOpen
           /\ (\A st \in Present : adapter.ends[st] > 0) => adapter.outStream # "open"

\* stdout has emitted "end" and "close", twice one of them, stderr is present
\* and has signalled nothing, and the Tube has had data.
C40_Witness ==
    /\ adapter.impl = "list"
    /\ Len(adapter.streams) = 2
    /\ adapter.ends["stdout"] > 0
    /\ adapter.closes["stdout"] > 0
    /\ adapter.ends["stdout"] + adapter.closes["stdout"] > 2
    /\ Flowing("stderr")
    /\ emitted # <<>>

====
